---- MODULE Spec2Model ----
(***************************************************************************)
(* Extraction pipeline of brazil-congress-transparency-project:            *)
(* the window planners, the linked-page walker, the flatteners, the        *)
(* dedup-and-persist step and the extractor registry / orchestrator.       *)
(* Every component has its own specification over its own variables; the   *)
(* variables of the other components stay at their idle values.            *)
(***************************************************************************)
EXTENDS Integers, Sequences, FiniteSets, Bags, TLC

VARIABLES
    \* ---- window planners (utils.month_date_windows, extract_votacoes._month_windows)
    w_pc,        \* "idle" (inputs chosen) | "done" (windows planned)
    w_planner,   \* "none" | "shared" | "votacoes"
    w_start,     \* requested start date  <<y, m, d>>
    w_end,       \* requested end date    <<y, m, d>>
    w_today,     \* date.today()          <<y, m, d>>
    w_windows,   \* the planned windows: sequence of <<window_start, window_end>>
    \* ---- orchestrator (pipeline.main, pipeline._run_one)
    p_pc,        \* "parsed" | "loop" | "running" | "listed" | "usage_error"
                 \* | "complete" | "crashed"
    p_list,      \* --list given
    p_only,      \* --only after split(","); <<>> when absent or empty
    p_to_run,    \* keys of to_run, in dict order
    p_i,         \* position of the for loop in to_run
    p_state,     \* per extractor: "pending" | "running" | "succeeded" | "failed"
    p_calls,     \* entry points invoked so far: sequence of [name, kwargs]
    p_exit,      \* <<exit code>> once the process has ended, <<>> before
    p_listing,   \* the extractor lines --list printed
    \* ---- linked-page walker (CamaraApiClient.get_all)
    g_pc,            \* "loop" | "returned" | "raised"
    g_max_pages,     \* the page cap of the call
    g_url,           \* url: <<>> for None, <<href>> otherwise ("" is falsy)
    g_params,        \* current_params: <<>> for None, <<dict>> otherwise
    g_pages_fetched, \* pages_fetched
    g_all_records,   \* all_records
    g_requests,      \* requests issued by this call: sequence of [url, params]
    g_pages,         \* the "dados" of every response received, in order
    g_always_next,   \* every response so far was a non-empty page with a next link
    g_caller,        \* history: the params argument as the caller gave it
    g_links,         \* history: the "links" of each non-empty page received
    \* ---- singleton / sequence normalisation sites
    u_pc,        \* "input" | "done"
    u_site,      \* the site applied: "unwrap_list" | "comissoes" | "mandatos"
                 \* | "senator_list" | "adm"
    u_raw,       \* the decoded field: [tag, val]
    u_out,       \* what the site produced: [raised, value]
    \* ---- output tables and the persist step (utils.save_parquet)
    files,       \* per table: <<>> when the file is absent, <<rows>> otherwise
                 \* (rows: the multiset of the file's rows)
    s_pc,        \* "idle" | "saved"
    s_path,      \* the table of the last save_parquet call
    s_records,   \* its records argument
    s_dedup,     \* whether unique_subset was given
    s_ret,       \* what it returned
    s_prev,      \* before it: the file, and the call before (given, dedup,
                 \* recs: its records as a set, ret)
    \* ---- one run of an extractor (extract_senators, extract_ceaps,
    \*      extract_servidores)
    e_name,      \* the extractor
    e_pc,        \* its position
    e_todo,      \* the units (senator codes, years, months) still to fetch
    e_acc,       \* per table, the flat records collected so far
    e_units,     \* history: the outcome of each unit fetched so far
    e_persist,   \* history: the tables whose persist step has run
    files0,      \* history: the files as the run found them
    \* ---- pipeline.py: the temporal values of one _run_one call
    k_pc,        \* "parsed" | "called"
    k_name,      \* the extractor
    k_args,      \* argparse namespace: start_year, end_year, start_date, end_date
    k_today,     \* date.today()
    k_kwargs,    \* the keyword arguments fn was called with
    \* ---- the year-month planners (utils.month_windows and
    \*      extract_servidores._month_windows with its today filter)
    y_pc,        \* "input" | "planned"
    y_planner,   \* "none" | "utils" | "servidores"
    y_start_year,
    y_end_year,
    y_today,     \* date.today()
    y_windows,   \* the (year, month) pairs planned
    \* ---- one HTTP client (SenateApiClient or CamaraApiClient)
    c_pc,        \* "idle" | "sent" | "slept"
    c_method,    \* the method of the call in progress
    c_call,      \* number of calls started
    c_log,       \* history: the requests, sleeps, raises and returns so far
    \* ---- one application of a flatten function
    f_pc,        \* "input" | "done"
    f_fn,        \* the function applied
    f_rec,       \* its record argument (the decoded JSON object)
    f_arg,       \* its other argument (an id the extractor passes), or None
    f_out,       \* what it produced: [raised, value]
    \* ---- one run of extract_camara_votacoes.extract_all
    v_pc,        \* "loop" | "get_all" | "sessions" | "done"
    v_i,         \* windows started
    v_local,     \* all_records of the get_all call in progress
    v_fetched,   \* its pages_fetched
    v_outcome,   \* how the get_all call of the window ended: "ok" | "error"
    v_new,       \* new_sessions still to go through
    v_seen,      \* seen_votacoes
    v_votacoes,  \* all_votacoes
    v_votos,     \* all_votos
    v_requests,  \* history: the session ids whose votes were requested
    v_mark,      \* history: the sizes of the three above when the window began
    v_log,       \* history: one entry per finished window
    v_saved,     \* <<>>, or the two collections given to save_parquet
    \* ---- one run of main, down to the single requests
    m_pc,        \* "main" | "start" | "units" | "waiting" | "complete"
    m_to_run,    \* keys of to_run, in dict order
    m_i,         \* extractors started
    m_ext,       \* the running extractor
    m_units,     \* its units still to fetch
    m_page,      \* pages of the current unit fetched so far
    m_got,       \* whether those pages held records
    m_acc,       \* the tables it has collected records for
    m_ids,       \* camara_deputados: the deputy ids of all_lista
    m_inflight,  \* the requests sent and not yet answered
    m_requested, \* history: the running extractor has sent a request
    m_tables,    \* the table files that exist
    m_before,    \* history: the table files when the extractor started
    m_log,       \* history: one entry per finished extractor
    \* ---- extract_comissoes.extract_all, the master list
    cm_pc,        \* "colegiados" | "mistas" | "done"
    cm_colegiados,       \* colegiados_raw
    cm_mistas,    \* mistas_raw
    cm_i,         \* records of the current list already handled
    cm_comissoes, \* comissoes: code -> record
    cm_new_from_mistas   \* new_from_mistas

winVars == <<w_pc, w_planner, w_start, w_end, w_today, w_windows>>

pipeVars == <<p_pc, p_list, p_only, p_to_run, p_i, p_state, p_calls, p_exit,
              p_listing>>

walkVars == <<g_pc, g_max_pages, g_url, g_params, g_pages_fetched,
              g_all_records, g_requests, g_pages, g_always_next,
              g_caller, g_links>>

unwrapVars == <<u_pc, u_site, u_raw, u_out>>

callVars == <<s_pc, s_path, s_records, s_dedup, s_ret, s_prev>>

saveVars == <<files, callVars>>

extVars == <<e_name, e_pc, e_todo, e_acc, e_units, e_persist, files0>>

fwdVars == <<k_pc, k_name, k_args, k_today, k_kwargs>>

ymVars == <<y_pc, y_planner, y_start_year, y_end_year, y_today, y_windows>>

cliVars == <<c_pc, c_method, c_call, c_log>>

flatVars == <<f_pc, f_fn, f_rec, f_arg, f_out>>

votVars == <<v_pc, v_i, v_local, v_fetched, v_outcome, v_new, v_seen, v_votacoes,
             v_votos, v_requests, v_mark, v_log, v_saved>>

runVars == <<m_pc, m_to_run, m_i, m_ext, m_units, m_page, m_got, m_acc, m_ids,
             m_inflight, m_requested, m_tables, m_before, m_log>>

comVars == <<cm_pc, cm_colegiados, cm_mistas, cm_i, cm_comissoes, cm_new_from_mistas>>

moreVars == <<flatVars, votVars, runVars, comVars>>

coreVars == <<winVars, pipeVars, walkVars, unwrapVars, saveVars, extVars, fwdVars,
              ymVars, cliVars>>

vars == <<winVars, pipeVars, walkVars, unwrapVars, saveVars, extVars, fwdVars,
          ymVars, cliVars, moreVars>>

Null == "None"

Range(s) == {s[i] : i \in DOMAIN s}

(***************************************************************************)
(* Calendar: datetime.date as <<year, month, day>>, proleptic Gregorian.   *)
(***************************************************************************)
IsLeap(y) == (y % 4 = 0 /\ y % 100 # 0) \/ y % 400 = 0

\* calendar.monthrange(y, m)[1]
monthrange(y, m) ==
    IF m = 2 THEN (IF IsLeap(y) THEN 29 ELSE 28)
    ELSE IF m \in {4, 6, 9, 11} THEN 30 ELSE 31

RECURSIVE DaysBeforeMonth(_, _)
DaysBeforeMonth(y, m) ==
    IF m <= 1 THEN 0 ELSE DaysBeforeMonth(y, m - 1) + monthrange(y, m - 1)

\* date.toordinal()
Ord(d) ==
    LET y1 == d[1] - 1
    IN  365 * y1 + (y1 \div 4) - (y1 \div 100) + (y1 \div 400)
        + DaysBeforeMonth(d[1], d[2]) + d[3]

\* date <= date
DateLE(a, b) == Ord(a) <= Ord(b)

\* min(date, date)
MinDate(a, b) == IF DateLE(b, a) THEN b ELSE a

\* date - timedelta(days=1)
PrevDay(d) ==
    IF d[3] > 1 THEN <<d[1], d[2], d[3] - 1>>
    ELSE IF d[2] > 1 THEN <<d[1], d[2] - 1, monthrange(d[1], d[2] - 1)>>
    ELSE <<d[1] - 1, 12, 31>>

\* cursor + relativedelta(months=1), for a cursor on the first of a month
NextMonthStart(d) ==
    IF d[2] = 12 THEN <<d[1] + 1, 1, 1>> ELSE <<d[1], d[2] + 1, 1>>

(***************************************************************************)
(* utils.month_date_windows                                                *)
(***************************************************************************)
\* the month roll-over at the end of the loop body: m += 1; if m > 12: ...
RollOverSkipsDecember(y, m) ==
    IF m + 1 >= 12 THEN <<y + 1, 1>> ELSE <<y, m + 1>>

RollOver(y, m) ==
    IF m + 1 > 12 THEN <<y + 1, 1>> ELSE <<y, m + 1>>

RECURSIVE month_date_windows_loop(_, _, _, _)
month_date_windows_loop(y, m, cutoff, windows) ==
    IF DateLE(<<y, m, 1>>, cutoff)
    THEN LET last_day   == monthrange(y, m)
             window_end == MinDate(<<y, m, last_day>>, cutoff)
             nxt        == RollOver(y, m)
         IN  month_date_windows_loop(nxt[1], nxt[2], cutoff,
                 Append(windows, <<(<<y, m, 1>>), window_end>>))
    ELSE windows

month_date_windows(start, end, today) ==
    month_date_windows_loop(start[1], start[2], MinDate(end, today), <<>>)

(***************************************************************************)
(* extract_votacoes._month_windows (the Senate votes extractor's own       *)
(* planner; it never reads date.today())                                   *)
(***************************************************************************)
\* window_end = min(next_month - timedelta(days=1), end)
VotacoesWindowEnd(cursor, end) == MinDate(PrevDay(NextMonthStart(cursor)), end)

RECURSIVE votacoes_month_windows_loop(_, _, _)
votacoes_month_windows_loop(cursor, end, windows) ==
    IF DateLE(cursor, end)
    THEN LET next_month == NextMonthStart(cursor)
             window_end == VotacoesWindowEnd(cursor, end)
         IN  votacoes_month_windows_loop(next_month, end,
                 Append(windows, <<cursor, window_end>>))
    ELSE windows

votacoes_month_windows(start, end) ==
    votacoes_month_windows_loop(<<start[1], start[2], 1>>, end, <<>>)

(***************************************************************************)
(* Inputs of the planners: three days of each of NumMonths consecutive     *)
(* months starting in November 2019 (a year boundary and a leap February). *)
(***************************************************************************)
NumMonths == 5

MonthAt(k) == <<2019 + ((10 + k) \div 12), ((10 + k) % 12) + 1>>

DateInputs ==
    UNION { LET ym == MonthAt(k)
            IN  { <<ym[1], ym[2], 1>>, <<ym[1], ym[2], 15>>,
                  <<ym[1], ym[2], monthrange(ym[1], ym[2])>> }
            : k \in 0 .. (NumMonths - 1) }

\* the dates of the documented scenario 2019-02-01 .. 2019-04-15
ScenarioStart == <<2019, 2, 1>>

ScenarioEnd == <<2019, 4, 15>>

WinIdle ==
    /\ w_pc = "off"
    /\ w_planner = "none"
    /\ w_start = <<>> /\ w_end = <<>> /\ w_today = <<>>
    /\ w_windows = <<>>

WinStart ==
    /\ w_pc = "idle"
    /\ w_planner = "none"
    /\ w_start \in DateInputs \cup {ScenarioStart}
    /\ w_end \in DateInputs \cup {ScenarioEnd}
    /\ w_today \in DateInputs
    /\ w_windows = <<>>

\* extract_camara_votacoes.extract_all: windows = month_date_windows(start, end)
PlanShared ==
    /\ w_pc = "idle"
    /\ w_windows' = month_date_windows(w_start, w_end, w_today)
    /\ w_planner' = "shared"
    /\ w_pc' = "done"
    /\ UNCHANGED <<w_start, w_end, w_today>>
    /\ UNCHANGED <<pipeVars, walkVars, unwrapVars, saveVars, extVars, fwdVars, ymVars, cliVars, moreVars>>

\* extract_votacoes.extract_all: windows = _month_windows(start, end)
PlanVotacoes ==
    /\ w_pc = "idle"
    /\ w_windows' = votacoes_month_windows(w_start, w_end)
    /\ w_planner' = "votacoes"
    /\ w_pc' = "done"
    /\ UNCHANGED <<w_start, w_end, w_today>>
    /\ UNCHANGED <<pipeVars, walkVars, unwrapVars, saveVars, extVars, fwdVars, ymVars, cliVars, moreVars>>

WinNext == PlanShared \/ PlanVotacoes

(***************************************************************************)
(* pipeline.py: the extractor registry and the orchestrator                *)
(***************************************************************************)
\* _build_registry(): the names in dict order
RegistryNames ==
    << "senators", "votacoes", "comissoes", "liderancas", "processos", "ceaps",
       "servidores", "auxilio_moradia", "camara_deputados", "camara_despesas",
       "camara_proposicoes", "camara_votacoes" >>

\* entry["args"]
RegistryArgs(name) ==
    IF name \in {"votacoes", "camara_votacoes"} THEN {"start_date", "end_date"}
    ELSE IF name \in {"processos", "ceaps", "servidores", "camara_despesas",
                      "camara_proposicoes"}
         THEN {"start_year", "end_year"}
    ELSE {}

\* entry["desc"]
RegistryDesc(name) ==
    CASE name = "senators" -> "Senator biographical profiles and mandate history (LEGIS)"
      [] name = "votacoes" -> "Plenary voting sessions and senator votes (LEGIS)"
      [] name = "comissoes" -> "Committee master list and senator memberships (LEGIS)"
      [] name = "liderancas" -> "Current leadership positions (LEGIS)"
      [] name = "processos" -> "Legislative proposals PL/PEC/PLP/MPV (LEGIS)"
      [] name = "ceaps" -> "Senator CEAPS expense reimbursements (ADM)"
      [] name = "servidores" -> "Staff, pensioners, payroll, overtime (ADM)"
      [] name = "auxilio_moradia" -> "Senator housing allowance snapshot (ADM)"
      [] name = "camara_deputados" -> "Deputy biographical profiles, legislatures 56+57 (CAMARA)"
      [] name = "camara_despesas" -> "Deputy CEAP expense records (CAMARA)"
      [] name = "camara_proposicoes" -> "Legislative proposals authored by deputies (CAMARA)"
      [] name = "camara_votacoes" -> "Plenary voting sessions and deputy votes (CAMARA)"

\* a line of --list without the tags
ListLineWithoutTags(name) == [name |-> name, desc |-> RegistryDesc(name), args |-> {}]

\* main: the line --list prints for one entry (the tags as a set)
ListLine(name) ==
    [name |-> name, desc |-> RegistryDesc(name), args |-> RegistryArgs(name)]

\* every temporal value forwarded, whatever the tags
ForwardsEverything(name) == {"start_year", "end_year", "start", "end"}

\* _run_one: the keyword arguments built from the declared tags
RunOneKwargs(name) ==
    {"start_year" : x \in {t \in RegistryArgs(name) : t = "start_year"}}
    \cup {"end_year" : x \in {t \in RegistryArgs(name) : t = "end_year"}}
    \cup {"start" : x \in {t \in RegistryArgs(name) : t = "start_date"}}
    \cup {"end" : x \in {t \in RegistryArgs(name) : t = "end_date"}}

\* the selected names taken in registry order
RegistryOrderNames(names) ==
    LET Selected(n) == n \in Range(names)
    IN  SelectSeq(RegistryNames, Selected)

\* every occurrence of a name kept
KeepAllNames(names) == names

\* no name reported as unknown
UnknownChecksNothing(names) == {}

\* the keys of {n: registry[n] for n in names}: first occurrences, in order
RECURSIVE DictKeys(_)
DictKeys(names) ==
    IF names = <<>> THEN <<>>
    ELSE LET front == DictKeys(SubSeq(names, 1, Len(names) - 1))
             last  == names[Len(names)]
         IN  IF last \in Range(front) THEN front ELSE Append(front, last)

\* unknown = [n for n in names if n not in registry]
Unknown(names) == {n \in Range(names) : n \notin Range(RegistryNames)}

\* _run_one: what becomes of an exception raised by fn(**kwargs)
ExceptionPropagates == "propagated"

OnExtractorException == "caught"

\* longest --only list of the model
MaxOnly == 2

OnlyInputs ==
    UNION { [1 .. n -> Range(RegistryNames) \cup {"bogus"}] : n \in 1 .. MaxOnly }

PipeIdle ==
    /\ p_pc = "off"
    /\ p_list = FALSE
    /\ p_only = <<>>
    /\ p_to_run = <<>>
    /\ p_i = 0
    /\ p_state = [n \in Range(RegistryNames) |-> "pending"]
    /\ p_calls = <<>>
    /\ p_exit = <<>>
    /\ p_listing = <<>>

\* after parser.parse_args()
PipeStart ==
    /\ p_pc = "parsed"
    /\ p_list \in BOOLEAN
    /\ p_only \in {<<>>} \cup OnlyInputs
    /\ p_to_run = <<>>
    /\ p_i = 0
    /\ p_state = [n \in Range(RegistryNames) |-> "pending"]
    /\ p_calls = <<>>
    /\ p_exit = <<>>
    /\ p_listing = <<>>

\* main: if args.list: ...; sys.exit(0)
MainList ==
    /\ p_pc = "parsed"
    /\ p_list
    /\ p_listing' = [k \in DOMAIN RegistryNames |-> ListLine(RegistryNames[k])]
    /\ p_pc' = "listed"
    /\ p_exit' = <<0>>
    /\ UNCHANGED <<p_list, p_only, p_to_run, p_i, p_state, p_calls>>
    /\ UNCHANGED <<winVars, walkVars, unwrapVars, saveVars, extVars, fwdVars, ymVars, cliVars, moreVars>>

\* main: if unknown: ...; sys.exit(1)
MainUnknown ==
    /\ p_pc = "parsed"
    /\ ~p_list
    /\ p_only # <<>>
    /\ Unknown(p_only) # {}
    /\ p_pc' = "usage_error"
    /\ p_exit' = <<1>>
    /\ UNCHANGED <<p_listing, p_list, p_only, p_to_run, p_i, p_state, p_calls>>
    /\ UNCHANGED <<winVars, walkVars, unwrapVars, saveVars, extVars, fwdVars, ymVars, cliVars, moreVars>>

\* main: to_run = {n: registry[n] for n in names}, or the whole registry
MainSelect ==
    /\ p_pc = "parsed"
    /\ ~p_list
    /\ p_only # <<>> => Unknown(p_only) = {}
    /\ p_to_run' = IF p_only # <<>> THEN DictKeys(p_only) ELSE RegistryNames
    /\ p_i' = 1
    /\ p_pc' = "loop"
    /\ UNCHANGED <<p_listing, p_list, p_only, p_state, p_calls, p_exit>>
    /\ UNCHANGED <<winVars, walkVars, unwrapVars, saveVars, extVars, fwdVars, ymVars, cliVars, moreVars>>

\* _run_one up to the call fn(**kwargs)
RunOneStart ==
    /\ p_pc = "loop"
    /\ p_i <= Len(p_to_run)
    /\ LET name == p_to_run[p_i]
       IN  /\ p_state' = [p_state EXCEPT ![name] = "running"]
           /\ p_calls' = Append(p_calls,
                                [name |-> name, kwargs |-> RunOneKwargs(name)])
    /\ p_pc' = "running"
    /\ UNCHANGED <<p_listing, p_list, p_only, p_to_run, p_i, p_exit>>
    /\ UNCHANGED <<winVars, walkVars, unwrapVars, saveVars, extVars, fwdVars, ymVars, cliVars, moreVars>>

\* fn(**kwargs) returns
RunOneReturn ==
    /\ p_pc = "running"
    /\ p_state' = [p_state EXCEPT ![p_to_run[p_i]] = "succeeded"]
    /\ p_i' = p_i + 1
    /\ p_pc' = "loop"
    /\ UNCHANGED <<p_listing, p_list, p_only, p_to_run, p_calls, p_exit>>
    /\ UNCHANGED <<winVars, walkVars, unwrapVars, saveVars, extVars, fwdVars, ymVars, cliVars, moreVars>>

\* fn(**kwargs) raises an Exception: except Exception as exc: print(...)
RunOneRaise ==
    /\ p_pc = "running"
    /\ p_state' = [p_state EXCEPT ![p_to_run[p_i]] = "failed"]
    /\ IF OnExtractorException = "caught"
       THEN /\ p_i' = p_i + 1
            /\ p_pc' = "loop"
            /\ p_exit' = p_exit
       ELSE /\ p_i' = p_i
            /\ p_pc' = "crashed"
            /\ p_exit' = <<1>>
    /\ UNCHANGED <<p_listing, p_list, p_only, p_to_run, p_calls>>
    /\ UNCHANGED <<winVars, walkVars, unwrapVars, saveVars, extVars, fwdVars, ymVars, cliVars, moreVars>>

\* main: print("All extractions complete."); the process ends normally
MainComplete ==
    /\ p_pc = "loop"
    /\ p_i > Len(p_to_run)
    /\ p_pc' = "complete"
    /\ p_exit' = <<0>>
    /\ UNCHANGED <<p_listing, p_list, p_only, p_to_run, p_i, p_state, p_calls>>
    /\ UNCHANGED <<winVars, walkVars, unwrapVars, saveVars, extVars, fwdVars, ymVars, cliVars, moreVars>>

PipeNext ==
    \/ MainList
    \/ MainUnknown
    \/ MainSelect
    \/ RunOneStart
    \/ RunOneReturn
    \/ RunOneRaise
    \/ MainComplete

(***************************************************************************)
(* camara_client.py: CamaraApiClient.get_all                               *)
(***************************************************************************)
DefaultItens == 100

\* "itens" set to the default whatever the caller gave
AlwaysDefaultItens(params) ==
    {kv \in params : kv[1] # "itens"} \cup {<<"itens", 100>>}

\* the next link looked for in the last position only
LastHref(links) ==
    IF links # <<>> /\ links[Len(links)].rel = "next"
    THEN <<links[Len(links)].href>> ELSE <<>>

\* params = {**params, "itens": 100} unless the caller gave "itens"
WithDefaultItens(params) ==
    IF \E kv \in params : kv[1] = "itens" THEN params
    ELSE params \cup {<<"itens", DefaultItens>>}

\* while url and pages_fetched < max_pages
WithinCapOffByOne(pages_fetched, max_pages) == pages_fetched <= max_pages

WithinCap(pages_fetched, max_pages) == pages_fetched < max_pages

Truthy(url) == url # <<>> /\ url # <<"">>

\* next((lnk["href"] for lnk in links if lnk.get("rel") == "next"), None)
NextHref(links) ==
    IF \E k \in DOMAIN links : links[k].rel = "next"
    THEN LET k == CHOOSE j \in DOMAIN links :
                     /\ links[j].rel = "next"
                     /\ \A h \in DOMAIN links : links[h].rel = "next" => j <= h
         IN  <<links[k].href>>
    ELSE <<>>

RECURSIVE Concat(_)
Concat(pages) ==
    IF pages = <<>> THEN <<>>
    ELSE Concat(SubSeq(pages, 1, Len(pages) - 1)) \o pages[Len(pages)]

CamaraBase == "/base/path"

\* largest page cap of the model
MaxCap == 3

\* what the upstream may answer: the "dados" of a page ...
PageDados == {<<>>, <<"a">>, <<"a", "b">>}

\* ... and its "links"
PageLinks ==
    { <<>>,
      <<[rel |-> "self", href |-> "/u1"]>>,
      <<[rel |-> "self", href |-> "/u1"], [rel |-> "next", href |-> "/u1"]>>,
      <<[rel |-> "next", href |-> "/u2"], [rel |-> "last", href |-> "/u1"]>>,
      <<[rel |-> "next", href |-> ""]>> }

CallerParams ==
    { {}, {<<"idLegislatura", 57>>}, {<<"ano", 2019>>, <<"itens", 50>>} }

WalkIdle ==
    /\ g_pc = "off"
    /\ g_max_pages = 0
    /\ g_url = <<>>
    /\ g_params = <<>>
    /\ g_pages_fetched = 0
    /\ g_all_records = <<>>
    /\ g_requests = <<>>
    /\ g_pages = <<>>
    /\ g_always_next = TRUE
    /\ g_caller = {}
    /\ g_links = <<>>

\* get_all up to the while loop
WalkStart ==
    /\ g_pc = "loop"
    /\ g_max_pages \in 0 .. MaxCap
    /\ g_url = <<CamaraBase>>
    /\ g_caller \in CallerParams
    /\ g_params = <<WithDefaultItens(g_caller)>>
    /\ g_pages_fetched = 0
    /\ g_all_records = <<>>
    /\ g_requests = <<>>
    /\ g_pages = <<>>
    /\ g_always_next = TRUE
    /\ g_links = <<>>

LoopGuard == Truthy(g_url) /\ WithinCap(g_pages_fetched, g_max_pages)

\* one iteration: the request succeeds and the page has records
GetAllPage ==
    /\ g_pc = "loop"
    /\ LoopGuard
    /\ \E dados \in PageDados \ {<<>>}, links \in PageLinks :
         /\ g_requests' = Append(g_requests, [url |-> g_url[1], params |-> g_params])
         /\ g_pages' = Append(g_pages, dados)
         /\ g_all_records' = g_all_records \o dados
         /\ g_pages_fetched' = g_pages_fetched + 1
         /\ g_url' = NextHref(links)
         /\ g_params' = <<>>
         /\ g_always_next' = (g_always_next /\ Truthy(NextHref(links)))
         /\ g_links' = Append(g_links, links)
    /\ UNCHANGED <<g_pc, g_max_pages, g_caller>>
    /\ UNCHANGED <<winVars, pipeVars, unwrapVars, saveVars, extVars, fwdVars, ymVars, cliVars, moreVars>>

\* one iteration: the request succeeds and the page has no records: break
GetAllEmptyPage ==
    /\ g_pc = "loop"
    /\ LoopGuard
    /\ g_requests' = Append(g_requests, [url |-> g_url[1], params |-> g_params])
    /\ g_pages' = Append(g_pages, <<>>)
    /\ g_always_next' = FALSE
    /\ g_pc' = "returned"
    /\ UNCHANGED <<g_max_pages, g_url, g_params, g_pages_fetched, g_all_records,
                   g_caller, g_links>>
    /\ UNCHANGED <<winVars, pipeVars, unwrapVars, saveVars, extVars, fwdVars, ymVars, cliVars, moreVars>>

\* one iteration: the request fails (transport error or raise_for_status)
GetAllRaise ==
    /\ g_pc = "loop"
    /\ LoopGuard
    /\ g_requests' = Append(g_requests, [url |-> g_url[1], params |-> g_params])
    /\ g_always_next' = FALSE
    /\ g_pc' = "raised"
    /\ UNCHANGED <<g_max_pages, g_url, g_params, g_pages_fetched, g_all_records,
                   g_pages, g_caller, g_links>>
    /\ UNCHANGED <<winVars, pipeVars, unwrapVars, saveVars, extVars, fwdVars, ymVars, cliVars, moreVars>>

\* the loop condition is false: return all_records
GetAllReturn ==
    /\ g_pc = "loop"
    /\ ~LoopGuard
    /\ g_pc' = "returned"
    /\ UNCHANGED <<g_max_pages, g_url, g_params, g_pages_fetched, g_all_records,
                   g_requests, g_pages, g_always_next, g_caller, g_links>>
    /\ UNCHANGED <<winVars, pipeVars, unwrapVars, saveVars, extVars, fwdVars, ymVars, cliVars, moreVars>>

WalkNext == GetAllPage \/ GetAllEmptyPage \/ GetAllRaise \/ GetAllReturn

(***************************************************************************)
(* Singleton / sequence normalisation.  A decoded JSON field is            *)
(*   [tag |-> "absent", val |-> <<>>]   the key is missing                  *)
(*   [tag |-> "null",   val |-> <<>>]   the key holds None                  *)
(*   [tag |-> "dict",   val |-> o]      the key holds the single object o   *)
(*   [tag |-> "list",   val |-> objs]   the key holds a list of objects     *)
(* and an object is [id |-> i, v |-> payload]; i = Null when the object      *)
(* lacks its id key.                                                        *)
(***************************************************************************)
Ok(v) == [raised |-> "", value |-> v]

Raise(err) == [raised |-> err, value |-> <<>>]

\* utils.unwrap_list(obj), obj = parent.get(key)
unwrap_list(raw) ==
    IF raw.tag \in {"absent", "null"} THEN Ok(<<>>)
    ELSE IF raw.tag = "dict" THEN Ok(<<raw.val>>)
    ELSE Ok(raw.val)

\* extract_comissoes._unwrap_list(obj), obj = parent.get(key)
comissoes_unwrap_list(raw) ==
    IF raw.tag \in {"absent", "null"} THEN Ok(<<>>)
    ELSE IF raw.tag = "dict" THEN Ok(<<raw.val>>)
    ELSE Ok(raw.val)

\* str(x.get(key, "")): the text of the id, "" when the key is missing
StrOrEmpty(i) == IF i = Null THEN "" ELSE i

\* extract_senators._flatten_mandate(senador_id, mandato)
flatten_mandate(senador_id, mandato) ==
    [key |-> <<senador_id, StrOrEmpty(mandato.id)>>, val |-> mandato.v]

\* extract_senators.fetch_mandatos(client, code), after the GET:
\* raw_mandatos = ....get("Mandato", []); a dict is wrapped; then one
\* _flatten_mandate per element
fetch_mandatos(code, raw) ==
    IF raw.tag = "absent" THEN Ok(<<>>)
    ELSE IF raw.tag = "null" THEN Raise("TypeError")
    ELSE LET raw_mandatos == IF raw.tag = "dict" THEN <<raw.val>> ELSE raw.val
         IN  Ok([k \in DOMAIN raw_mandatos |->
                    flatten_mandate(code, raw_mandatos[k])])

\* iterating the value of fetch_senator_list(client) in extract_all:
\* codes = [s["IdentificacaoParlamentar"]["CodigoParlamentar"] for s in senator_list].
\* fetch_senator_list returns data[...]["Parlamentar"] as decoded; a dict
\* iterates over its keys, which are strings
senator_list_codes(raw) ==
    IF raw.tag = "absent" THEN Raise("KeyError")
    ELSE IF raw.tag \in {"null", "dict"} THEN Raise("TypeError")
    ELSE IF \E k \in DOMAIN raw.val : raw.val[k].id = Null THEN Raise("KeyError")
    ELSE Ok([k \in DOMAIN raw.val |-> raw.val[k].id])

\* the ADM extractors (extract_ceaps.extract_all and the like):
\* if not data: continue; if isinstance(data, dict): data = [data]
adm_records(raw) ==
    IF raw.tag \in {"absent", "null"} THEN Ok(<<>>)
    ELSE IF raw.tag = "dict" THEN Ok(<<raw.val>>)
    ELSE Ok(raw.val)

SiteResult(site, raw) ==
    IF site = "unwrap_list" THEN unwrap_list(raw)
    ELSE IF site = "comissoes" THEN comissoes_unwrap_list(raw)
    ELSE IF site = "mandatos" THEN fetch_mandatos("7", raw)
    ELSE IF site = "senator_list" THEN senator_list_codes(raw)
    ELSE adm_records(raw)

\* longest list of the decoded field
MaxListLen == 2

Objs ==
    { [id |-> "1", v |-> "x"], [id |-> "1", v |-> "y"],
      [id |-> "2", v |-> "x"], [id |-> Null, v |-> "x"] }

RawFields ==
    {[tag |-> "absent", val |-> <<>>], [tag |-> "null", val |-> <<>>]}
    \cup {[tag |-> "dict", val |-> o] : o \in Objs}
    \cup {[tag |-> "list", val |-> v] :
             v \in UNION {[1 .. n -> Objs] : n \in 0 .. MaxListLen}}

UnwrapIdle ==
    /\ u_pc = "off"
    /\ u_site = "none"
    /\ u_raw = [tag |-> "absent", val |-> <<>>]
    /\ u_out = Ok(<<>>)

UnwrapStart ==
    /\ u_pc = "input"
    /\ u_site = "none"
    /\ u_raw \in RawFields
    /\ u_out = Ok(<<>>)

ApplySite(site) ==
    /\ u_pc = "input"
    /\ u_site' = site
    /\ u_out' = SiteResult(site, u_raw)
    /\ u_pc' = "done"
    /\ UNCHANGED u_raw
    /\ UNCHANGED <<winVars, pipeVars, walkVars, saveVars, extVars, fwdVars, ymVars, cliVars, moreVars>>

ApplyUnwrapList == ApplySite("unwrap_list")

ApplyComissoesUnwrapList == ApplySite("comissoes")

ApplyFetchMandatos == ApplySite("mandatos")

ApplySenatorList == ApplySite("senator_list")

ApplyAdmRecords == ApplySite("adm")

UnwrapNext ==
    \/ ApplyUnwrapList
    \/ ApplyComissoesUnwrapList
    \/ ApplyFetchMandatos
    \/ ApplySenatorList
    \/ ApplyAdmRecords

(***************************************************************************)
(* utils.save_parquet.  A flat record is [key |-> <<natural-key columns>>,  *)
(* val |-> the other columns]; a table is the multiset of its rows (the     *)
(* order of the rows, and so df.sort, is not represented).                  *)
(***************************************************************************)
SeqToBag(seq) ==
    [r \in Range(seq) |-> Cardinality({k \in DOMAIN seq : seq[k] = r})]

KeysOf(recs) == {r.key : r \in recs}

\* pl.DataFrame(records).unique(subset=key columns): one row of each group of
\* equal keys survives, which one is not specified
UniqueKeepsAll(records) == {SeqToBag(records)}

UniqueOutcomes(records) ==
    { SetToBag(S) : S \in { T \in SUBSET Range(records) :
                              /\ KeysOf(T) = KeysOf(Range(records))
                              /\ Cardinality(T) = Cardinality(KeysOf(T)) } }

\* the new rows added to the rows of the file
AppendsToFile(old, df) == IF old = <<>> THEN <<df>> ELSE <<old[1] (+) df>>

\* df.write_parquet(path): the content of path afterwards, old its content
\* before
write_parquet(old, df) == <<df>>

\* save_parquet(records, path, unique_subset=..., sort_by=...): the possible
\* [file, n] = (content of path afterwards, returned row count)
save_parquet(records, old, dedup) ==
    IF records = <<>>
    THEN {[file |-> old, n |-> 0]}
    ELSE { [file |-> write_parquet(old, df), n |-> BagCardinality(df)] :
             df \in (IF dedup THEN UniqueOutcomes(records)
                              ELSE {SeqToBag(records)}) }

Tables ==
    { "senadores", "mandatos", "ceaps", "servidores", "pensionistas",
      "remuneracoes_servidores", "remuneracoes_pensionistas", "horas_extras",
      "camara_deputados" }

\* a file left by an earlier run
OldRows == SetToBag({[key |-> <<"0">>, val |-> "old"]})

\* longest record collection handed to save_parquet
MaxRecs == 3

FlatRecs == {[key |-> <<k>>, val |-> v] : k \in {"1", "2"}, v \in {"x", "y"}}

RecordSeqs == UNION {[1 .. n -> FlatRecs] : n \in 0 .. MaxRecs}

FilesAbsent == [t \in Tables |-> <<>>]

SaveIdle ==
    /\ s_pc = "off"
    /\ s_path = "none"
    /\ s_records = <<>>
    /\ s_dedup = FALSE
    /\ s_ret = 0
    /\ s_prev = [given |-> FALSE, dedup |-> FALSE, recs |-> {}, ret |-> 0,
                 file |-> <<>>]

SaveStart ==
    /\ \E old \in {<<>>, <<OldRows>>} :
          files = [t \in Tables |-> IF t = "camara_deputados" THEN old ELSE <<>>]
    /\ s_pc = "idle"
    /\ s_path = "none"
    /\ s_records = <<>>
    /\ s_dedup = FALSE
    /\ s_ret = 0
    /\ s_prev = [given |-> FALSE, dedup |-> FALSE, recs |-> {}, ret |-> 0,
                 file |-> <<>>]

\* a call save_parquet(records, RAW_DIR / "camara_deputados.parquet", ...)
SaveCall(from, to) ==
    /\ s_pc = from
    /\ \E records \in RecordSeqs, dedup \in BOOLEAN :
         \E out \in save_parquet(records, files["camara_deputados"], dedup) :
            /\ files' = [files EXCEPT !["camara_deputados"] = out.file]
            /\ s_records' = records
            /\ s_dedup' = dedup
            /\ s_ret' = out.n
    /\ s_prev' = [given |-> s_pc # "idle", dedup |-> s_dedup,
                  recs |-> Range(s_records), ret |-> s_ret,
                  file |-> files["camara_deputados"]]
    /\ s_path' = "camara_deputados"
    /\ s_pc' = to
    /\ UNCHANGED <<winVars, pipeVars, walkVars, unwrapVars, extVars, fwdVars, ymVars, cliVars, moreVars>>

\* the first run's call, and the call of a later run over the file it left
SaveParquetCall == SaveCall("idle", "saved")

SaveParquetAgain == SaveCall("saved", "resaved")

SaveNext == SaveParquetCall \/ SaveParquetAgain

(***************************************************************************)
(* The extractors.  A response is [ok, body]: ok = FALSE when the GET       *)
(* raised (HTTP error status, timeout), body the decoded field otherwise.   *)
(***************************************************************************)
NoBody == [tag |-> "null", val |-> <<>>]

Responses(bodies) ==
    {[ok |-> FALSE, body |-> NoBody]} \cup {[ok |-> TRUE, body |-> b] : b \in bodies}

Extractors == {"senators", "ceaps", "servidores"}

SnapshotTables == {"servidores", "pensionistas"}

MonthlyTables ==
    {"remuneracoes_servidores", "remuneracoes_pensionistas", "horas_extras"}

ExtractorTables(name) ==
    IF name = "senators" THEN {"senadores", "mandatos"}
    ELSE IF name = "ceaps" THEN {"ceaps"}
    ELSE SnapshotTables \cup MonthlyTables

\* years of a CEAPS run: range(start_year, end_year + 1)
NumYears == 2

ceaps_years == [k \in 1 .. NumYears |-> 2018 + k]

\* months of a servidores run that started in January of the current year:
\* _month_windows(...) filtered by date(y, m, 1) <= today
NumWindows == 2

servidores_windows == [k \in 1 .. NumWindows |-> <<2019, k>>]

\* extract_servidores.extract_all: the order of the sub-extractions
AfterTable(t) ==
    IF t = "servidores" THEN "pensionistas"
    ELSE IF t = "pensionistas" THEN "remuneracoes_servidores"
    ELSE IF t = "remuneracoes_servidores" THEN "remuneracoes_pensionistas"
    ELSE IF t = "remuneracoes_pensionistas" THEN "horas_extras"
    ELSE "done"

TodoAt(pc) == IF pc \in MonthlyTables THEN servidores_windows ELSE <<>>

\* extract_senators._flatten_senator(raw)
flatten_senator(raw) == [key |-> <<StrOrEmpty(raw.id)>>, val |-> raw.v]

\* extract_ceaps._flatten_record(rec), extract_servidores._flatten_servidor
\* and _flatten_pensionista: the key column is rec.get(...), None when missing
flatten_record(rec) == [key |-> <<rec.id>>, val |-> rec.v]

\* extract_servidores._flatten_remuneracao(rec, ano, mes) and the like
flatten_remuneracao(rec, ano, mes) == [key |-> <<rec.id, ano, mes>>, val |-> rec.v]

\* bodies of the responses the model feeds to the extractors
SenatorListBodies == RawFields

DetailBodies(code) == {[id |-> code, v |-> "x"], [id |-> Null, v |-> "x"]}

MandatosBodies ==
    { [tag |-> "absent", val |-> <<>>], [tag |-> "null", val |-> <<>>],
      [tag |-> "dict", val |-> [id |-> "1", v |-> "x"]],
      [tag |-> "list", val |-> <<[id |-> "1", v |-> "x"], [id |-> "2", v |-> "x"]>>] }

CeapsBodies ==
    { [tag |-> "null", val |-> <<>>], [tag |-> "list", val |-> <<>>],
      [tag |-> "dict", val |-> [id |-> "1", v |-> "x"]],
      [tag |-> "list", val |-> <<[id |-> "1", v |-> "x"], [id |-> "1", v |-> "y"]>>],
      [tag |-> "list", val |-> <<[id |-> "2", v |-> "x"], [id |-> Null, v |-> "x"]>>] }

ServidoresBodies ==
    { [tag |-> "list", val |-> <<>>],
      [tag |-> "list", val |-> <<[id |-> "1", v |-> "x"]>>] }

ExtIdle ==
    /\ e_name = "none"
    /\ e_pc = "off"
    /\ e_todo = <<>>
    /\ e_acc = [t \in Tables |-> <<>>]
    /\ e_units = <<>>
    /\ e_persist = {}
    /\ files0 = FilesAbsent

ExtStart ==
    /\ e_name \in Extractors
    /\ e_pc = (IF e_name = "senators" THEN "list"
               ELSE IF e_name = "ceaps" THEN "loop" ELSE "servidores")
    /\ e_todo = (IF e_name = "ceaps" THEN ceaps_years ELSE <<>>)
    /\ e_acc = [t \in Tables |-> <<>>]
    /\ e_units = <<>>
    /\ e_persist = {}
    /\ \E old \in {<<>>, <<OldRows>>} :
          files0 = [t \in Tables |->
                      IF t \in ExtractorTables(e_name) THEN old ELSE <<>>]
    /\ files = files0

Others == <<winVars, pipeVars, walkVars, unwrapVars, callVars, fwdVars, ymVars, cliVars, moreVars>>

\* extract_senators.extract_all, up to the loop: the list GET and the codes
\* comprehension, neither inside a try
SenatorsFetchList ==
    /\ e_name = "senators" /\ e_pc = "list"
    /\ \E resp \in Responses(SenatorListBodies) :
         LET codes == senator_list_codes(resp.body)
         IN  IF resp.ok /\ codes.raised = ""
             THEN /\ e_todo' = codes.value
                  /\ e_pc' = "loop"
             ELSE /\ e_todo' = <<>>
                  /\ e_pc' = "aborted"
    /\ UNCHANGED <<e_name, e_acc, e_units, e_persist, files0, files, Others>>

\* one iteration of the loop over codes: senators.append(detail), then
\* mandatos.extend(fetch_mandatos(...)), both inside one try
SenatorsUnit ==
    /\ e_name = "senators" /\ e_pc = "loop" /\ e_todo # <<>>
    /\ LET code == Head(e_todo)
       IN  \E detail \in Responses(DetailBodies(code)),
              mand \in Responses(MandatosBodies) :
             LET ms == fetch_mandatos(code, mand.body)
                 s1 == IF detail.ok
                       THEN Append(e_acc["senadores"], flatten_senator(detail.body))
                       ELSE e_acc["senadores"]
                 m1 == IF detail.ok /\ mand.ok /\ ms.raised = ""
                       THEN e_acc["mandatos"] \o ms.value
                       ELSE e_acc["mandatos"]
             IN  /\ ~detail.ok => ~mand.ok
                 /\ e_acc' = [e_acc EXCEPT !["senadores"] = s1, !["mandatos"] = m1]
                 /\ e_units' = Append(e_units,
                       IF detail.ok /\ mand.ok /\ ms.raised = "" THEN "ok" ELSE "error")
    /\ e_todo' = Tail(e_todo)
    /\ UNCHANGED <<e_name, e_pc, e_persist, files0, files, Others>>

\* after the loop: pl.DataFrame(senators).write_parquet(...) and the same for
\* mandatos, whatever the two lists hold
SenatorsPersist ==
    /\ e_name = "senators" /\ e_pc = "loop" /\ e_todo = <<>>
    /\ files' = [files EXCEPT
                    !["senadores"] = write_parquet(@, SeqToBag(e_acc["senadores"])),
                    !["mandatos"] = write_parquet(@, SeqToBag(e_acc["mandatos"]))]
    /\ e_persist' = e_persist \cup {"senadores", "mandatos"}
    /\ e_pc' = "done"
    /\ UNCHANGED <<e_name, e_todo, e_acc, e_units, files0, Others>>

\* extract_ceaps.extract_all: one year of the loop, inside its try
CeapsYear ==
    /\ e_name = "ceaps" /\ e_pc = "loop" /\ e_todo # <<>>
    /\ \E resp \in Responses(CeapsBodies) :
         LET data == adm_records(resp.body).value
             records == [k \in DOMAIN data |-> flatten_record(data[k])]
         IN  IF ~resp.ok
             THEN /\ e_units' = Append(e_units, "error")
                  /\ UNCHANGED e_acc
             ELSE IF data = <<>>
             THEN /\ e_units' = Append(e_units, "empty")
                  /\ UNCHANGED e_acc
             ELSE /\ e_units' = Append(e_units, "ok")
                  /\ e_acc' = [e_acc EXCEPT !["ceaps"] = @ \o records]
    /\ e_todo' = Tail(e_todo)
    /\ UNCHANGED <<e_name, e_pc, e_persist, files0, files, Others>>

\* extract_ceaps.extract_all after the loop: return when nothing was
\* fetched, else unique(subset=["id"]) and write
CeapsPersist ==
    /\ e_name = "ceaps" /\ e_pc = "loop" /\ e_todo = <<>>
    /\ IF e_acc["ceaps"] = <<>>
       THEN UNCHANGED files
       ELSE \E df \in UniqueOutcomes(e_acc["ceaps"]) :
               files' = [files EXCEPT !["ceaps"] = write_parquet(@, df)]
    /\ e_persist' = e_persist \cup {"ceaps"}
    /\ e_pc' = "done"
    /\ UNCHANGED <<e_name, e_todo, e_acc, e_units, files0, Others>>

\* extract_servidores.extract_servidores and extract_pensionistas: one GET,
\* not inside a try; an empty answer is skipped, else unique and write
ServSnapshot(t) ==
    /\ e_name = "servidores" /\ e_pc = t
    /\ \E resp \in Responses(ServidoresBodies) :
         LET data == adm_records(resp.body).value
             records == [k \in DOMAIN data |-> flatten_record(data[k])]
         IN  IF ~resp.ok
             THEN /\ e_pc' = "aborted"
                  /\ e_todo' = <<>>
                  /\ e_units' = Append(e_units, "error")
                  /\ UNCHANGED <<e_acc, e_persist, files>>
             ELSE IF data = <<>>
             THEN /\ e_pc' = AfterTable(t)
                  /\ e_todo' = TodoAt(AfterTable(t))
                  /\ e_units' = Append(e_units, "empty")
                  /\ e_persist' = e_persist \cup {t}
                  /\ UNCHANGED <<e_acc, files>>
             ELSE /\ e_pc' = AfterTable(t)
                  /\ e_todo' = TodoAt(AfterTable(t))
                  /\ e_units' = Append(e_units, "ok")
                  /\ e_acc' = [e_acc EXCEPT ![t] = records]
                  /\ e_persist' = e_persist \cup {t}
                  /\ \E df \in UniqueOutcomes(records) :
                        files' = [files EXCEPT ![t] = write_parquet(@, df)]
    /\ UNCHANGED <<e_name, files0, Others>>

\* extract_remuneracoes, extract_remuneracoes_pensionistas and
\* extract_horas_extras: one month of the loop, inside its try
ServWindow(t) ==
    /\ e_name = "servidores" /\ e_pc = t /\ e_todo # <<>>
    /\ \E resp \in Responses(ServidoresBodies) :
         LET data == adm_records(resp.body).value
             ano == Head(e_todo)[1]
             mes == Head(e_todo)[2]
             records == [k \in DOMAIN data |-> flatten_remuneracao(data[k], ano, mes)]
         IN  IF ~resp.ok
             THEN /\ e_units' = Append(e_units, "error")
                  /\ UNCHANGED e_acc
             ELSE IF data = <<>>
             THEN /\ e_units' = Append(e_units, "empty")
                  /\ UNCHANGED e_acc
             ELSE /\ e_units' = Append(e_units, "ok")
                  /\ e_acc' = [e_acc EXCEPT ![t] = @ \o records]
    /\ e_todo' = Tail(e_todo)
    /\ UNCHANGED <<e_name, e_pc, e_persist, files0, files, Others>>

\* the same three functions after their loop: return when nothing was
\* fetched, else unique on the key columns and write
ServPersist(t) ==
    /\ e_name = "servidores" /\ e_pc = t /\ e_todo = <<>>
    /\ IF e_acc[t] = <<>>
       THEN UNCHANGED files
       ELSE \E df \in UniqueOutcomes(e_acc[t]) :
               files' = [files EXCEPT ![t] = write_parquet(@, df)]
    /\ e_persist' = e_persist \cup {t}
    /\ e_pc' = AfterTable(t)
    /\ e_todo' = TodoAt(AfterTable(t))
    /\ UNCHANGED <<e_name, e_acc, e_units, files0, Others>>

ExtractSnapshot == \E t \in SnapshotTables : ServSnapshot(t)

ExtractWindow == \E t \in MonthlyTables : ServWindow(t)

ExtractPersist == \E t \in MonthlyTables : ServPersist(t)

ExtNext ==
    \/ SenatorsFetchList
    \/ SenatorsUnit
    \/ SenatorsPersist
    \/ CeapsYear
    \/ CeapsPersist
    \/ ExtractSnapshot
    \/ ExtractWindow
    \/ ExtractPersist

(***************************************************************************)
(* pipeline.py: the temporal values main resolves and _run_one forwards.    *)
(* An argument that was not given is <<>>, a given one <<v>>; the dates     *)
(* are the values date.fromisoformat returned.                              *)
(***************************************************************************)
DefaultStartYear == 2019

DefaultStartDate == <<2019, 2, 1>>

\* x or default, x an argparse value that is None when not given
OrDefault(x, default) == IF x = <<>> THEN default ELSE x[1]

\* main: end_year, start_date and end_date as passed to _run_one
ResolvedEndYear(args, today) == OrDefault(args.end_year, today[1])

ResolvedStartDate(args) == OrDefault(args.start_date, DefaultStartDate)

ResolvedEndDate(args, today) == OrDefault(args.end_date, today)

\* _run_one: kwargs as fn receives them (<<>>: the keyword is not passed)
run_one_kwargs(name, start_year, end_year, start_date, end_date) ==
    LET Pass(key, v) == IF key \in RunOneKwargs(name) THEN <<v>> ELSE <<>>
    IN  [ start_year |-> Pass("start_year", start_year),
          end_year   |-> Pass("end_year", end_year),
          start      |-> Pass("start", start_date),
          end        |-> Pass("end", end_date) ]

NoKwargs == [start_year |-> <<>>, end_year |-> <<>>, start |-> <<>>, end |-> <<>>]

CliInputs ==
    [ start_year : {DefaultStartYear, 2023},
      end_year   : {<<>>, <<2024>>},
      start_date : {<<>>, <<<<2020, 3, 5>>>>},
      end_date   : {<<>>, <<<<2021, 12, 31>>>>} ]

FwdIdle ==
    /\ k_pc = "off"
    /\ k_name = "none"
    /\ k_args = [start_year |-> DefaultStartYear, end_year |-> <<>>,
                 start_date |-> <<>>, end_date |-> <<>>]
    /\ k_today = <<>>
    /\ k_kwargs = NoKwargs

FwdStart ==
    /\ k_pc = "parsed"
    /\ k_name \in Range(RegistryNames)
    /\ k_args \in CliInputs
    /\ k_today \in {<<<<2025, 6, 15>>>>}
    /\ k_kwargs = NoKwargs

\* main resolves the defaults and _run_one calls fn(**kwargs)
RunOneForward ==
    /\ k_pc = "parsed"
    /\ k_kwargs' = run_one_kwargs(k_name, k_args.start_year,
                                  ResolvedEndYear(k_args, k_today[1]),
                                  ResolvedStartDate(k_args),
                                  ResolvedEndDate(k_args, k_today[1]))
    /\ k_pc' = "called"
    /\ UNCHANGED <<k_name, k_args, k_today>>
    /\ UNCHANGED <<winVars, pipeVars, walkVars, unwrapVars, saveVars, extVars,
                   ymVars, cliVars, moreVars>>

FwdNext == RunOneForward

(***************************************************************************)
(* The year-month planners.  A pair is <<year, month>>.                     *)
(***************************************************************************)
\* (y1, m1) <= (y2, m2), the order of Python tuples
YmLE(a, b) == a[1] < b[1] \/ (a[1] = b[1] /\ a[2] <= b[2])

\* the cutoff taken from end alone
CutoffIgnoresToday(end, today) == <<end[1], end[2]>>

\* utils.month_windows: min((end.year, end.month), (today.year, today.month))
YmCutoff(end, today) ==
    IF YmLE(<<end[1], end[2]>>, <<today[1], today[2]>>)
    THEN <<end[1], end[2]>> ELSE <<today[1], today[2]>>

\* m += 1; if m > 12: m = 1; y += 1
NextYm(y, m) == IF m + 1 > 12 THEN <<y + 1, 1>> ELSE <<y, m + 1>>

\* the while loop of both planners
RECURSIVE ym_loop(_, _, _, _)
ym_loop(y, m, last, windows) ==
    IF YmLE(<<y, m>>, last)
    THEN ym_loop(NextYm(y, m)[1], NextYm(y, m)[2], last, Append(windows, <<y, m>>))
    ELSE windows

\* utils.month_windows(start, end), today = date.today()
month_windows(start, end, today) ==
    ym_loop(start[1], start[2], YmCutoff(end, today), <<>>)

\* extract_servidores._month_windows(start, end)
servidores_month_windows(start, end) ==
    ym_loop(start[1], start[2], <<end[1], end[2]>>, <<>>)

\* extract_servidores.extract_remuneracoes: the windows of (start_year,
\* end_year), [(y, m) for y, m in windows if date(y, m, 1) <= today]
servidores_plan(start_year, end_year, today) ==
    LET windows == servidores_month_windows(<<start_year, 1, 1>>, <<end_year, 12, 31>>)
        Kept(w) == DateLE(<<w[1], w[2], 1>>, today)
    IN  SelectSeq(windows, Kept)

YearInputs == 2022 .. 2025

TodayInputs ==
    { <<2023, 1, 1>>, <<2023, 12, 31>>, <<2024, 2, 29>>, <<2024, 6, 15>>,
      <<2024, 12, 1>> }

YmIdle ==
    /\ y_pc = "off"
    /\ y_planner = "none"
    /\ y_start_year = 0
    /\ y_end_year = 0
    /\ y_today = <<>>
    /\ y_windows = <<>>

YmStart ==
    /\ y_pc = "input"
    /\ y_planner = "none"
    /\ y_start_year \in YearInputs
    /\ y_end_year \in YearInputs
    /\ y_today \in TodayInputs
    /\ y_windows = <<>>

\* utils.month_windows over the span of the two years
PlanMonthWindows ==
    /\ y_pc = "input"
    /\ y_planner' = "utils"
    /\ y_windows' = month_windows(<<y_start_year, 1, 1>>, <<y_end_year, 12, 31>>,
                                  y_today)
    /\ y_pc' = "planned"
    /\ UNCHANGED <<y_start_year, y_end_year, y_today>>
    /\ UNCHANGED <<winVars, pipeVars, walkVars, unwrapVars, saveVars, extVars,
                   fwdVars, cliVars, moreVars>>

\* extract_servidores.extract_remuneracoes and the other monthly extractions
PlanServidores ==
    /\ y_pc = "input"
    /\ y_planner' = "servidores"
    /\ y_windows' = servidores_plan(y_start_year, y_end_year, y_today)
    /\ y_pc' = "planned"
    /\ UNCHANGED <<y_start_year, y_end_year, y_today>>
    /\ UNCHANGED <<winVars, pipeVars, walkVars, unwrapVars, saveVars, extVars,
                   fwdVars, cliVars, moreVars>>

YmNext == PlanMonthWindows \/ PlanServidores

(***************************************************************************)
(* api_client.py and camara_client.py: one client GET, step by step.        *)
(* Delays are in milliseconds.                                              *)
(***************************************************************************)
LegisDelay == 150

AdmDelay == 300

CamaraDelay == 100

ClientMethods == {"get_legis", "get_adm", "camara_get", "camara_get_all"}

\* the delay= argument of SenateApiClient._get, self._delay for the Chamber
Delay(method) ==
    IF method = "get_legis" THEN LegisDelay
    ELSE IF method = "get_adm" THEN AdmDelay
    ELSE CamaraDelay

\* no sleep after a successful response
NoPacing(method) == <<>>

\* time.sleep(delay) after raise_for_status() passed
Pacing(method) ==
    <<[ev |-> "sleep", call |-> c_call, method |-> method, secs |-> Delay(method)]>>

Event(ev) == [ev |-> ev, call |-> c_call, method |-> c_method, secs |-> 0]

\* most requests of one client in the model
MaxRequests == 3

Requests == Cardinality({k \in DOMAIN c_log : c_log[k].ev = "request"})

CliIdle ==
    /\ c_pc = "off"
    /\ c_method = "none"
    /\ c_call = 0
    /\ c_log = <<>>

CliStart ==
    /\ c_pc = "idle"
    /\ c_method = "none"
    /\ c_call = 0
    /\ c_log = <<>>

CliOthers ==
    <<winVars, pipeVars, walkVars, unwrapVars, saveVars, extVars, fwdVars, ymVars,
      moreVars>>

\* a get call starts: resp = self._client.get(url, params=params)
ClientGet ==
    /\ c_pc = "idle"
    /\ Requests < MaxRequests
    /\ \E method \in ClientMethods : c_method' = method
    /\ c_call' = c_call + 1
    /\ c_log' = Append(c_log, [ev |-> "request", call |-> c_call + 1,
                                method |-> c_method', secs |-> 0])
    /\ c_pc' = "sent"
    /\ UNCHANGED CliOthers

\* the transport fails, or resp.raise_for_status() raises
ClientRaise ==
    /\ c_pc = "sent"
    /\ c_log' = Append(c_log, Event("raise"))
    /\ c_pc' = "idle"
    /\ UNCHANGED <<c_method, c_call, CliOthers>>

\* the status is a success: time.sleep(delay)
ClientSleep ==
    /\ c_pc = "sent"
    /\ c_log' = c_log \o Pacing(c_method)
    /\ c_pc' = "slept"
    /\ UNCHANGED <<c_method, c_call, CliOthers>>

\* resp.json() raises on a body that is not JSON
ClientDecodeRaise ==
    /\ c_pc = "slept"
    /\ c_log' = Append(c_log, Event("decode_error"))
    /\ c_pc' = "idle"
    /\ UNCHANGED <<c_method, c_call, CliOthers>>

\* return resp.json(); for get_all, the loop ends and all_records is returned
ClientReturn ==
    /\ c_pc = "slept"
    /\ c_log' = Append(c_log, Event("return"))
    /\ c_pc' = "idle"
    /\ UNCHANGED <<c_method, c_call, CliOthers>>

\* get_all: the page had records and a next link: the next iteration's request
ClientNextPage ==
    /\ c_pc = "slept"
    /\ c_method = "camara_get_all"
    /\ Requests < MaxRequests
    /\ c_log' = Append(c_log, Event("request"))
    /\ c_pc' = "sent"
    /\ UNCHANGED <<c_method, c_call, CliOthers>>

CliNext ==
    \/ ClientGet
    \/ ClientRaise
    \/ ClientSleep
    \/ ClientDecodeRaise
    \/ ClientReturn
    \/ ClientNextPage

(***************************************************************************)
(* The flatten functions.  A decoded JSON value is [tag, val]:              *)
(*   "absent"  the key is not in the object                                 *)
(*   "none"    null                                                         *)
(*   "str"     text, val the sequence of its characters                     *)
(*   "int"     val = <<n>>;  "float"  val = <<n>>, the float n.0            *)
(*   "empty"   the object {};  "dict"  an object, val the record of its     *)
(*             keys (a key can hold an "absent" value)                      *)
(* An object given to a flatten function is the record of its keys.         *)
(***************************************************************************)
JAbsent == [tag |-> "absent", val |-> <<>>]

JNone == [tag |-> "none", val |-> <<>>]

JStr(t) == [tag |-> "str", val |-> t]

JInt(n) == [tag |-> "int", val |-> <<n>>]

JFloat(n) == [tag |-> "float", val |-> <<n>>]

JEmpty == [tag |-> "empty", val |-> <<>>]

JDict(d) == [tag |-> "dict", val |-> d]

\* rec.get(key, default) on the record of an object
Get(rec, key, default) == IF rec[key].tag = "absent" THEN default ELSE rec[key]

\* d.get(key, default) on a value that is an object
DictGet(d, key, default) ==
    IF d.tag = "empty" THEN default ELSE Get(d.val, key, default)

IsDict(v) == v.tag \in {"empty", "dict"}

\* bool(v)
PyTruthy(v) ==
    CASE v.tag = "str" -> v.val # <<>>
      [] v.tag \in {"int", "float"} -> v.val[1] # 0
      [] v.tag = "dict" -> TRUE
      [] OTHER -> FALSE

\* v or default
PyOr(v, default) == IF PyTruthy(v) THEN v ELSE default

DigitChars == <<"0", "1", "2", "3", "4", "5", "6", "7", "8", "9">>

RECURSIVE Digits(_)
\* the decimal digits of a natural number
Digits(n) ==
    IF n < 10 THEN <<DigitChars[n + 1]>>
    ELSE Digits(n \div 10) \o <<DigitChars[(n % 10) + 1]>>

\* str(v)
PyStr(v) ==
    CASE v.tag = "str" -> v
      [] v.tag = "int" -> JStr(Digits(v.val[1]))
      [] v.tag = "float" -> JStr(Digits(v.val[1]) \o <<".", "0">>)
      [] v.tag = "none" -> JStr(<<"N", "o", "n", "e">>)
      [] OTHER -> JStr(<<"{", "}">>)

IsDigit(c) == \E d \in DOMAIN DigitChars : DigitChars[d] = c

DigitVal(c) == (CHOOSE d \in DOMAIN DigitChars : DigitChars[d] = c) - 1

RECURSIVE Strip(_)
\* text.strip() for the one whitespace character of the model
Strip(t) ==
    IF t = <<>> THEN t
    ELSE IF Head(t) = " " THEN Strip(Tail(t))
    ELSE IF t[Len(t)] = " " THEN Strip(SubSeq(t, 1, Len(t) - 1))
    ELSE t

RECURSIVE DecimalValue(_)
DecimalValue(t) ==
    IF t = <<>> THEN 0
    ELSE 10 * DecimalValue(SubSeq(t, 1, Len(t) - 1)) + DigitVal(t[Len(t)])

\* int(v)
PyInt(v) ==
    CASE v.tag \in {"int", "float"} -> Ok(v.val[1])
      [] v.tag = "str" ->
            LET t == Strip(v.val)
            IN  IF t # <<>> /\ \A i \in DOMAIN t : IsDigit(t[i])
                THEN Ok(DecimalValue(t))
                ELSE Raise("ValueError")
      [] OTHER -> Raise("TypeError")

\* sep in text
Has(t, sep) == \E i \in DOMAIN t : t[i] = sep

FirstAt(t, sep) == CHOOSE i \in DOMAIN t : t[i] = sep /\ \A j \in 1 .. (i - 1) : t[j] # sep

RECURSIVE split(_, _)
\* text.split(sep)
split(t, sep) ==
    IF ~Has(t, sep) THEN <<t>>
    ELSE <<SubSeq(t, 1, FirstAt(t, sep) - 1)>>
         \o split(SubSeq(t, FirstAt(t, sep) + 1, Len(t)), sep)

\* text.split(sep, 1)
split_once(t, sep) ==
    IF ~Has(t, sep) THEN <<t>>
    ELSE <<SubSeq(t, 1, FirstAt(t, sep) - 1), SubSeq(t, FirstAt(t, sep) + 1, Len(t))>>

\* the year taken from the last "/" component, as the extractor's copy does
AnoFromLastSlash(num_ano) == JStr(num_ano[Len(num_ano)])

\* num_ano[1] of flatten_processo_record
AnoFromSecond(num_ano) == JStr(num_ano[2])

\* transforms.processos.flatten_processo_record(rec)
flatten_processo_record(rec) ==
    LET ident == PyOr(Get(rec, "identificacao", JNone), JStr(<<>>))
    IN  IF ident.tag # "str" THEN Raise("TypeError")
        ELSE
        LET parts == IF Has(ident.val, " ") THEN split_once(ident.val, " ")
                     ELSE <<ident.val, <<>>>>
            slash == Has(parts[2], "/")
            num_ano == IF slash THEN split(parts[2], "/") ELSE <<parts[2]>>
            year == IF slash THEN AnoFromSecond(num_ano) ELSE JNone
            ano == IF PyTruthy(year) THEN PyInt(year) ELSE Ok(<<>>)
        IN  IF ano.raised # "" THEN Raise(ano.raised)
            ELSE Ok([ id_processo             |-> Get(rec, "id", JNone),
                      codigo_materia          |-> Get(rec, "codigoMateria", JNone),
                      identificacao           |-> PyOr(ident, JNone),
                      sigla_materia           |-> PyOr(JStr(parts[1]), JNone),
                      numero_materia          |-> PyOr(JStr(num_ano[1]), JNone),
                      ano_materia             |-> IF PyTruthy(year)
                                                  THEN JInt(ano.value) ELSE JNone,
                      ementa                  |-> Get(rec, "ementa", JNone),
                      tipo_documento          |-> Get(rec, "tipoDocumento", JNone),
                      data_apresentacao       |-> Get(rec, "dataApresentacao", JNone),
                      autoria                 |-> Get(rec, "autoria", JNone),
                      casa_identificadora     |-> Get(rec, "casaIdentificadora", JNone),
                      tramitando              |-> Get(rec, "tramitando", JNone),
                      data_ultima_atualizacao |-> Get(rec, "dataUltimaAtualizacao", JNone),
                      url_documento           |-> Get(rec, "urlDocumento", JNone) ])

\* extract_processos._flatten_record(rec)
processos_flatten_record(rec) ==
    LET ident == Get(rec, "identificacao", JNone)
    IN  IF PyTruthy(ident) /\ ident.tag # "str" THEN Raise("AttributeError")
        ELSE
        LET t == IF PyTruthy(ident) THEN ident.val ELSE <<>>
            by_space == split(t, " ")
            ano == IF PyTruthy(ident) /\ Has(t, "/")
                   THEN PyInt(AnoFromLastSlash(split(t, "/"))) ELSE Ok(<<>>)
        IN  IF ano.raised # "" THEN Raise(ano.raised)
            ELSE Ok([ id_processo             |-> Get(rec, "id", JNone),
                      codigo_materia          |-> Get(rec, "codigoMateria", JNone),
                      identificacao           |-> ident,
                      sigla_materia           |-> IF PyTruthy(ident)
                                                  THEN JStr(by_space[1]) ELSE JNone,
                      numero_materia          |-> IF PyTruthy(ident) /\ Has(t, " ")
                                                  THEN JStr(split(by_space[2], "/")[1])
                                                  ELSE JNone,
                      ano_materia             |-> IF PyTruthy(ident) /\ Has(t, "/")
                                                  THEN JInt(ano.value) ELSE JNone,
                      ementa                  |-> Get(rec, "ementa", JNone),
                      tipo_documento          |-> Get(rec, "tipoDocumento", JNone),
                      data_apresentacao       |-> Get(rec, "dataApresentacao", JNone),
                      autoria                 |-> Get(rec, "autoria", JNone),
                      casa_identificadora     |-> Get(rec, "casaIdentificadora", JNone),
                      tramitando              |-> Get(rec, "tramitando", JNone),
                      data_ultima_atualizacao |-> Get(rec, "dataUltimaAtualizacao", JNone),
                      url_documento           |-> Get(rec, "urlDocumento", JNone) ])

\* characters of the identificacao strings of the model
IdentChars == {"P", " ", "/", "2"}

\* longest identificacao string
MaxIdentLen == 5

IdentTexts == UNION {[1 .. n -> IdentChars] : n \in 0 .. MaxIdentLen}

\* values of a field the flatteners copy
PlainValues == {JAbsent, JNone, JStr(<<"x">>)}

ProcessoRec(id, ident, plain) ==
    [ id |-> id, codigoMateria |-> plain, identificacao |-> ident,
      ementa |-> plain, tipoDocumento |-> plain, dataApresentacao |-> plain,
      autoria |-> plain, casaIdentificadora |-> plain, tramitando |-> plain,
      dataUltimaAtualizacao |-> plain, urlDocumento |-> plain ]

ProcessoInputs ==
    {ProcessoRec(JInt(7), JStr(t), JStr(<<"x">>)) : t \in IdentTexts}
    \cup {ProcessoRec(JInt(7), i, plain) :
             i \in {JAbsent, JNone, JInt(2)}, plain \in PlainValues}

\* transforms.camara_deputados.flatten_deputado_list(rec, legislatura_id)
flatten_deputado_list(rec, legislatura_id) ==
    LET leg == PyInt(PyOr(Get(rec, "idLegislatura", JNone), legislatura_id))
    IN  IF leg.raised # "" THEN Raise(leg.raised)
        ELSE Ok([ deputado_id    |-> PyStr(PyOr(Get(rec, "id", JNone), JStr(<<>>))),
                  nome           |-> Get(rec, "nome", JNone),
                  sigla_partido  |-> Get(rec, "siglaPartido", JNone),
                  sigla_uf       |-> Get(rec, "siglaUf", JNone),
                  id_legislatura |-> JInt(leg.value),
                  url_foto       |-> Get(rec, "urlFoto", JNone),
                  email          |-> Get(rec, "email", JNone) ])

\* transforms.camara_deputados.flatten_deputado_detail(rec)
flatten_deputado_detail(rec) ==
    LET status == PyOr(Get(rec, "ultimoStatus", JNone), JEmpty)
    IN  IF ~IsDict(status) THEN Raise("AttributeError")
        ELSE
        LET gabinete == PyOr(DictGet(status, "gabinete", JNone), JEmpty)
            leg == PyInt(PyOr(DictGet(status, "idLegislatura", JNone), JInt(0)))
        IN  IF ~IsDict(gabinete) THEN Raise("AttributeError")
            ELSE IF leg.raised # "" THEN Raise(leg.raised)
            ELSE Ok([ deputado_id          |-> PyStr(PyOr(Get(rec, "id", JNone), JStr(<<>>))),
                      nome_civil           |-> Get(rec, "nomeCivil", JNone),
                      nome_parlamentar     |-> DictGet(status, "nome", JNone),
                      nome_eleitoral       |-> DictGet(status, "nomeEleitoral", JNone),
                      sigla_partido        |-> DictGet(status, "siglaPartido", JNone),
                      sigla_uf             |-> DictGet(status, "siglaUf", JNone),
                      id_legislatura       |-> JInt(leg.value),
                      url_foto             |-> DictGet(status, "urlFoto", JNone),
                      email                |-> DictGet(status, "email", JNone),
                      situacao             |-> DictGet(status, "situacao", JNone),
                      condicao_eleitoral   |-> DictGet(status, "condicaoEleitoral", JNone),
                      descricao_status     |-> DictGet(status, "descricaoStatus", JNone),
                      data_status          |-> DictGet(status, "data", JNone),
                      sexo                 |-> Get(rec, "sexo", JNone),
                      data_nascimento      |-> Get(rec, "dataNascimento", JNone),
                      uf_nascimento        |-> Get(rec, "ufNascimento", JNone),
                      municipio_nascimento |-> Get(rec, "municipioNascimento", JNone),
                      escolaridade         |-> Get(rec, "escolaridade", JNone),
                      telefone_gabinete    |-> DictGet(gabinete, "telefone", JNone) ])

\* transforms.senators.flatten_senator(raw)
transforms_flatten_senator(raw) ==
    LET ident == Get(raw, "IdentificacaoParlamentar", JEmpty)
        dados == Get(raw, "DadosBasicosParlamentar", JEmpty)
    IN  IF ~IsDict(ident) \/ ~IsDict(dados) THEN Raise("AttributeError")
        ELSE Ok([ senador_id       |-> PyStr(DictGet(ident, "CodigoParlamentar", JStr(<<>>))),
                  nome_parlamentar |-> DictGet(ident, "NomeParlamentar", JNone),
                  nome_completo    |-> DictGet(ident, "NomeCompletoParlamentar", JNone),
                  sexo             |-> DictGet(ident, "SexoParlamentar", JNone),
                  foto_url         |-> DictGet(ident, "UrlFotoParlamentar", JNone),
                  pagina_url       |-> DictGet(ident, "UrlPaginaParlamentar", JNone),
                  email            |-> DictGet(ident, "EmailParlamentar", JNone),
                  partido_sigla    |-> DictGet(ident, "SiglaPartidoParlamentar", JNone),
                  estado_sigla     |-> DictGet(ident, "UfParlamentar", JNone),
                  data_nascimento  |-> DictGet(dados, "DataNascimento", JNone),
                  naturalidade     |-> DictGet(dados, "Naturalidade", JNone),
                  uf_naturalidade  |-> DictGet(dados, "UfNaturalidade", JNone) ])

\* transforms.senators.flatten_mandate(senador_id, mandato)
transforms_flatten_mandate(senador_id, mandato) ==
    LET leg1 == Get(mandato, "PrimeiraLegislaturaDoMandato", JEmpty)
        leg2 == Get(mandato, "SegundaLegislaturaDoMandato", JEmpty)
    IN  IF ~IsDict(leg1) \/ ~IsDict(leg2) THEN Raise("AttributeError")
        ELSE Ok([ senador_id             |-> senador_id,
                  mandato_id             |-> PyStr(Get(mandato, "CodigoMandato", JStr(<<>>))),
                  estado_sigla           |-> Get(mandato, "UfParlamentar", JNone),
                  data_inicio            |-> DictGet(leg1, "DataInicio", JNone),
                  data_fim               |-> DictGet(leg2, "DataFim", JNone),
                  legislatura_inicio     |-> PyStr(DictGet(leg1, "NumeroLegislatura", JStr(<<>>))),
                  legislatura_fim        |-> PyStr(DictGet(leg2, "NumeroLegislatura", JStr(<<>>))),
                  descricao_participacao |-> Get(mandato, "DescricaoParticipacao", JNone) ])

\* transforms.ceaps.flatten_ceaps_record(rec)
flatten_ceaps_record(rec) ==
    Ok([ id                |-> Get(rec, "id", JNone),
         tipo_documento    |-> Get(rec, "tipoDocumento", JNone),
         ano               |-> Get(rec, "ano", JNone),
         mes               |-> Get(rec, "mes", JNone),
         cod_senador       |-> PyStr(PyOr(Get(rec, "codSenador", JNone), JStr(<<>>))),
         nome_senador      |-> Get(rec, "nomeSenador", JNone),
         tipo_despesa      |-> Get(rec, "tipoDespesa", JNone),
         cnpj_cpf          |-> Get(rec, "cpfCnpj", JNone),
         fornecedor        |-> Get(rec, "fornecedor", JNone),
         documento         |-> Get(rec, "documento", JNone),
         data              |-> Get(rec, "data", JNone),
         detalhamento      |-> Get(rec, "detalhamento", JNone),
         valor_reembolsado |-> Get(rec, "valorReembolsado", JNone) ])

\* transforms.camara_despesas.flatten_despesa_deputado(deputado_id, rec)
flatten_despesa_deputado(deputado_id, rec) ==
    Ok([ cod_documento       |-> PyStr(PyOr(Get(rec, "codDocumento", JNone), JStr(<<>>))),
         deputado_id         |-> deputado_id,
         ano                 |-> Get(rec, "ano", JNone),
         mes                 |-> Get(rec, "mes", JNone),
         tipo_despesa        |-> Get(rec, "tipoDespesa", JNone),
         cod_tipo_documento  |-> Get(rec, "codTipoDocumento", JNone),
         tipo_documento      |-> Get(rec, "tipoDocumento", JNone),
         data_documento      |-> Get(rec, "dataDocumento", JNone),
         num_documento       |-> Get(rec, "numDocumento", JNone),
         valor_documento     |-> Get(rec, "valorDocumento", JNone),
         url_documento       |-> Get(rec, "urlDocumento", JNone),
         nome_fornecedor     |-> Get(rec, "nomeFornecedor", JNone),
         cnpj_cpf_fornecedor |-> Get(rec, "cnpjCpfFornecedor", JNone),
         valor_liquido       |-> Get(rec, "valorLiquido", JNone),
         valor_glosa         |-> Get(rec, "valorGlosa", JNone),
         num_ressarcimento   |-> Get(rec, "numRessarcimento", JNone),
         cod_lote            |-> PyStr(PyOr(Get(rec, "codLote", JNone), JStr(<<>>))),
         parcela             |-> Get(rec, "parcela", JNone) ])

\* transforms.camara_votacoes.flatten_votacao_camara(v)
flatten_votacao_camara(v) ==
    Ok([ votacao_id         |-> Get(v, "id", JNone),
         data               |-> Get(v, "data", JNone),
         data_hora_registro |-> Get(v, "dataHoraRegistro", JNone),
         sigla_orgao        |-> Get(v, "siglaOrgao", JNone),
         uri_evento         |-> Get(v, "uriEvento", JNone),
         proposicao_objeto  |-> Get(v, "proposicaoObjeto", JNone),
         uri_proposicao     |-> Get(v, "uriProposicaoObjeto", JNone),
         descricao          |-> Get(v, "descricao", JNone),
         aprovacao          |-> Get(v, "aprovacao", JNone) ])

\* transforms.camara_votacoes.flatten_voto_camara(votacao_id, rec)
flatten_voto_camara(votacao_id, rec) ==
    LET dep == PyOr(Get(rec, "deputado_", JNone), JEmpty)
    IN  IF ~IsDict(dep) THEN Raise("AttributeError")
        ELSE Ok([ votacao_id     |-> votacao_id,
                  deputado_id    |-> PyStr(PyOr(DictGet(dep, "id", JNone), JStr(<<>>))),
                  nome           |-> DictGet(dep, "nome", JNone),
                  sigla_partido  |-> DictGet(dep, "siglaPartido", JNone),
                  sigla_uf       |-> DictGet(dep, "siglaUf", JNone),
                  id_legislatura |-> DictGet(dep, "idLegislatura", JNone),
                  tipo_voto      |-> Get(rec, "tipoVoto", JNone),
                  data_registro  |-> Get(rec, "dataRegistroVoto", JNone) ])

\* an identifier as the APIs send it: missing, null, text or number
IdValues ==
    {JAbsent, JNone, JStr(<<"7">>), JInt(7), JStr(<<"0">>), JInt(0),
     JStr(<<"4", "2">>), JInt(42)}

\* a nested object: missing, null, empty, not an object, or the object d
SubValues(d) == {JAbsent, JNone, JEmpty, JStr(<<"x">>), JDict(d)}

LegislaturaValues == {JAbsent, JNone, JInt(56), JStr(<<"5", "6">>), JStr(<<"x">>)}

DeputadoListInputs ==
    { [ id |-> id, nome |-> plain, siglaPartido |-> plain, siglaUf |-> plain,
        idLegislatura |-> leg, urlFoto |-> plain, email |-> plain ] :
      id \in IdValues, leg \in LegislaturaValues, plain \in PlainValues }

StatusRec(leg, gabinete, plain) ==
    [ nome |-> plain, nomeEleitoral |-> plain, siglaPartido |-> plain,
      siglaUf |-> plain, idLegislatura |-> leg, urlFoto |-> plain,
      email |-> plain, situacao |-> plain, condicaoEleitoral |-> plain,
      descricaoStatus |-> plain, data |-> plain, gabinete |-> gabinete ]

DeputadoDetailRec(id, status, plain) ==
    [ id |-> id, nomeCivil |-> plain, ultimoStatus |-> status, sexo |-> plain,
      dataNascimento |-> plain, ufNascimento |-> plain,
      municipioNascimento |-> plain, escolaridade |-> plain ]

DeputadoDetailInputs ==
    { DeputadoDetailRec(id, status, plain) :
        id \in {JAbsent, JInt(7)},
        status \in {JAbsent, JNone, JEmpty, JStr(<<"x">>)},
        plain \in PlainValues }
    \cup
    UNION { { DeputadoDetailRec(JInt(7), JDict(StatusRec(leg, gabinete, plain)), plain) :
                leg \in LegislaturaValues,
                gabinete \in SubValues([telefone |-> plain]) } :
            plain \in PlainValues }

IdentificacaoRec(code, plain) ==
    [ CodigoParlamentar |-> code, NomeParlamentar |-> plain,
      NomeCompletoParlamentar |-> plain, SexoParlamentar |-> plain,
      UrlFotoParlamentar |-> plain, UrlPaginaParlamentar |-> plain,
      EmailParlamentar |-> plain, SiglaPartidoParlamentar |-> plain,
      UfParlamentar |-> plain ]

DadosRec(plain) ==
    [DataNascimento |-> plain, Naturalidade |-> plain, UfNaturalidade |-> plain]

SenatorInputs ==
    { [IdentificacaoParlamentar |-> ident, DadosBasicosParlamentar |-> dados] :
        ident \in {JAbsent, JNone}, dados \in SubValues(DadosRec(JNone)) }
    \cup
    UNION { { [ IdentificacaoParlamentar |-> JDict(IdentificacaoRec(code, plain)),
                DadosBasicosParlamentar |-> dados ] :
                code \in IdValues, dados \in SubValues(DadosRec(plain)) } :
            plain \in PlainValues }

LegislaturaRec(plain) ==
    [DataInicio |-> plain, DataFim |-> plain, NumeroLegislatura |-> JInt(56)]

MandateInputs ==
    UNION { { [ CodigoMandato |-> code, UfParlamentar |-> plain,
                PrimeiraLegislaturaDoMandato |-> leg1,
                SegundaLegislaturaDoMandato |-> leg2,
                DescricaoParticipacao |-> plain ] :
                code \in {JAbsent, JStr(<<"7">>), JInt(7)},
                leg1 \in SubValues(LegislaturaRec(plain)),
                leg2 \in {JAbsent, JNone, JDict(LegislaturaRec(plain))} } :
            plain \in PlainValues }

CeapsInputs ==
    { [ id |-> id, tipoDocumento |-> plain, ano |-> plain, mes |-> plain,
        codSenador |-> cod, nomeSenador |-> plain, tipoDespesa |-> plain,
        cpfCnpj |-> plain, fornecedor |-> plain, documento |-> plain,
        data |-> plain, detalhamento |-> plain, valorReembolsado |-> plain ] :
        id \in {JInt(7), JStr(<<"7">>)}, cod \in IdValues, plain \in PlainValues }

DespesaInputs ==
    { [ codDocumento |-> cod, ano |-> plain, mes |-> plain, tipoDespesa |-> plain,
        codTipoDocumento |-> plain, tipoDocumento |-> plain,
        dataDocumento |-> plain, numDocumento |-> plain,
        valorDocumento |-> plain, urlDocumento |-> plain,
        nomeFornecedor |-> plain, cnpjCpfFornecedor |-> plain,
        valorLiquido |-> plain, valorGlosa |-> plain,
        numRessarcimento |-> plain, codLote |-> lote, parcela |-> plain ] :
        cod \in IdValues, lote \in {JAbsent, JInt(42), JStr(<<"4", "2">>)},
        plain \in PlainValues }

VotacaoCamaraInputs ==
    { [ id |-> id, data |-> plain, dataHoraRegistro |-> plain,
        siglaOrgao |-> plain, uriEvento |-> plain, proposicaoObjeto |-> plain,
        uriProposicaoObjeto |-> plain, descricao |-> plain,
        aprovacao |-> plain ] :
        id \in IdValues, plain \in PlainValues }

DeputadoRec(id, plain) ==
    [ id |-> id, nome |-> plain, siglaPartido |-> plain, siglaUf |-> plain,
      idLegislatura |-> JInt(56) ]

VotoCamaraInputs ==
    { [deputado_ |-> dep, tipoVoto |-> plain, dataRegistroVoto |-> plain] :
        dep \in {JAbsent, JNone, JEmpty, JStr(<<"x">>)}, plain \in PlainValues }
    \cup
    { [ deputado_ |-> JDict(DeputadoRec(id, plain)), tipoVoto |-> plain,
        dataRegistroVoto |-> plain ] :
        id \in IdValues, plain \in PlainValues }

FlatFns ==
    { "flatten_processo_record", "processos_flatten_record",
      "flatten_deputado_list", "flatten_deputado_detail",
      "transforms_flatten_senator", "transforms_flatten_mandate",
      "flatten_ceaps_record", "flatten_despesa_deputado",
      "flatten_votacao_camara", "flatten_voto_camara" }

FlatInputs(fn) ==
    CASE fn = "flatten_deputado_list" -> DeputadoListInputs
      [] fn = "flatten_deputado_detail" -> DeputadoDetailInputs
      [] fn = "transforms_flatten_senator" -> SenatorInputs
      [] fn = "transforms_flatten_mandate" -> MandateInputs
      [] fn = "flatten_ceaps_record" -> CeapsInputs
      [] fn = "flatten_despesa_deputado" -> DespesaInputs
      [] fn = "flatten_votacao_camara" -> VotacaoCamaraInputs
      [] fn = "flatten_voto_camara" -> VotoCamaraInputs
      [] OTHER -> ProcessoInputs

\* the id the extractor passes next to the record
FlatArgs(fn) ==
    CASE fn = "flatten_deputado_list" -> {JInt(57)}
      [] fn \in {"transforms_flatten_mandate", "flatten_despesa_deputado",
                 "flatten_voto_camara"} -> {JStr(<<"7">>)}
      [] OTHER -> {JNone}

FlatIdle ==
    /\ f_pc = "off"
    /\ f_fn = "none"
    /\ f_rec = <<>>
    /\ f_arg = JNone
    /\ f_out = <<>>


FlatStart ==
    /\ f_pc = "input"
    /\ f_fn \in FlatFns
    /\ f_rec \in FlatInputs(f_fn)
    /\ f_arg \in FlatArgs(f_fn)
    /\ f_out = <<>>

FlatOthers == <<coreVars, votVars, runVars, comVars>>

ApplyFlatten(fn, out) ==
    /\ f_pc = "input"
    /\ f_fn = fn
    /\ f_out' = out
    /\ f_pc' = "done"
    /\ UNCHANGED <<f_fn, f_rec, f_arg, FlatOthers>>

FlattenProcessoRecord ==
    ApplyFlatten("flatten_processo_record", flatten_processo_record(f_rec))

ProcessosFlattenRecord ==
    ApplyFlatten("processos_flatten_record", processos_flatten_record(f_rec))

FlattenDeputadoList ==
    ApplyFlatten("flatten_deputado_list", flatten_deputado_list(f_rec, f_arg))

FlattenDeputadoDetail ==
    ApplyFlatten("flatten_deputado_detail", flatten_deputado_detail(f_rec))

FlattenSenator ==
    ApplyFlatten("transforms_flatten_senator", transforms_flatten_senator(f_rec))

FlattenMandate ==
    ApplyFlatten("transforms_flatten_mandate", transforms_flatten_mandate(f_arg, f_rec))

FlattenCeapsRecord ==
    ApplyFlatten("flatten_ceaps_record", flatten_ceaps_record(f_rec))

FlattenDespesaDeputado ==
    ApplyFlatten("flatten_despesa_deputado", flatten_despesa_deputado(f_arg, f_rec))

FlattenVotacaoCamara ==
    ApplyFlatten("flatten_votacao_camara", flatten_votacao_camara(f_rec))

FlattenVotoCamara ==
    ApplyFlatten("flatten_voto_camara", flatten_voto_camara(f_arg, f_rec))

FlatNext ==
    \/ FlattenProcessoRecord
    \/ ProcessosFlattenRecord
    \/ FlattenDeputadoList
    \/ FlattenDeputadoDetail
    \/ FlattenSenator
    \/ FlattenMandate
    \/ FlattenCeapsRecord
    \/ FlattenDespesaDeputado
    \/ FlattenVotacaoCamara
    \/ FlattenVotoCamara

(***************************************************************************)
(* extract_camara_votacoes.extract_all: per monthly window one get_all on   *)
(* /votacoes, then one GET of the votes of every new session.               *)
(***************************************************************************)
\* pages one get_all call fetches at most (max_pages)
MaxPagesPerCall == 2

\* the monthly windows of the run
VotWindows == <<"2019-02", "2019-03">>

SessionRec(id) ==
    [ id |-> id, data |-> JNone, dataHoraRegistro |-> JNone, siglaOrgao |-> JNone,
      uriEvento |-> JNone, proposicaoObjeto |-> JNone,
      uriProposicaoObjeto |-> JNone, descricao |-> JNone, aprovacao |-> JNone ]

\* "dados" of a non-empty /votacoes page
SessionPages ==
    { <<SessionRec(JStr(<<"a">>))>>,
      <<SessionRec(JStr(<<"a">>)), SessionRec(JStr(<<"b">>))>>,
      <<SessionRec(JInt(7)), SessionRec(JNone)>> }

VotoRec ==
    [ deputado_ |-> JDict(DeputadoRec(JInt(1), JNone)), tipoVoto |-> JNone,
      dataRegistroVoto |-> JNone ]

\* "dados" of a /votacoes/{id}/votos response
VotosBodies == {<<>>, <<VotoRec>>}

\* what reaches the caller of get_all when a page raised: every page fetched
\* so far
PartialOnRaise(all_records) == all_records

\* what reaches the caller of get_all when a page raised: the exception
\* leaves get_all, records = ... is never assigned
OnGetAllRaise(all_records) == <<>>

\* the filter of new_sessions: r and r.get("id") and r["id"] not in seen
IsNewSession(r, seen) == PyTruthy(Get(r, "id", JNone)) /\ r.id \notin seen

\* new_sessions = [flatten_votacao_camara(r) for r in records if ...]
new_sessions(records, seen) ==
    LET kept == SelectSeq(records, LAMBDA r : IsNewSession(r, seen))
    IN  [k \in DOMAIN kept |-> flatten_votacao_camara(kept[k]).value]

\* _fetch_votos(client, votacao_id) once the GET returned dados
fetch_votos(votacao_id, dados) ==
    [k \in DOMAIN dados |-> flatten_voto_camara(votacao_id, dados[k]).value]

VotIdle ==
    /\ v_pc = "off"
    /\ v_i = 0
    /\ v_local = <<>>
    /\ v_fetched = 0
    /\ v_outcome = "none"
    /\ v_new = <<>>
    /\ v_seen = {}
    /\ v_votacoes = <<>>
    /\ v_votos = <<>>
    /\ v_requests = <<>>
    /\ v_mark = <<0, 0, 0>>
    /\ v_log = <<>>
    /\ v_saved = <<>>

VotStart ==
    /\ v_pc = "loop"
    /\ v_i = 0
    /\ v_local = <<>>
    /\ v_fetched = 0
    /\ v_outcome = "none"
    /\ v_new = <<>>
    /\ v_seen = {}
    /\ v_votacoes = <<>>
    /\ v_votos = <<>>
    /\ v_requests = <<>>
    /\ v_mark = <<0, 0, 0>>
    /\ v_log = <<>>
    /\ v_saved = <<>>

VotOthers == <<coreVars, flatVars, runVars, comVars>>

\* for i, (w_start, w_end) in enumerate(windows, 1): client.get_all(...)
VotWindow ==
    /\ v_pc = "loop"
    /\ v_i < Len(VotWindows)
    /\ v_i' = v_i + 1
    /\ v_local' = <<>>
    /\ v_fetched' = 0
    /\ v_mark' = <<Len(v_votacoes), Len(v_votos), Len(v_requests)>>
    /\ v_pc' = "get_all"
    /\ UNCHANGED <<v_outcome, v_new, v_seen, v_votacoes, v_votos, v_requests,
                   v_log, v_saved, VotOthers>>

\* what get_all hands to extract_all, and the filter on it
Deliver(records, outcome) ==
    /\ v_new' = new_sessions(records, v_seen)
    /\ v_outcome' = outcome
    /\ v_pc' = "sessions"

\* get_all: a page with records and a next link, below the cap
VotPageMore ==
    /\ v_pc = "get_all"
    /\ v_fetched + 1 < MaxPagesPerCall
    /\ \E page \in SessionPages : v_local' = v_local \o page
    /\ v_fetched' = v_fetched + 1
    /\ UNCHANGED <<v_pc, v_i, v_outcome, v_new, v_seen, v_votacoes, v_votos,
                   v_requests, v_mark, v_log, v_saved, VotOthers>>

\* get_all: a page with records and no next link, or the cap is reached
VotPageLast ==
    /\ v_pc = "get_all"
    /\ v_fetched < MaxPagesPerCall
    /\ \E page \in SessionPages :
          /\ v_local' = v_local \o page
          /\ Deliver(v_local \o page, "ok")
    /\ v_fetched' = v_fetched + 1
    /\ UNCHANGED <<v_i, v_seen, v_votacoes, v_votos, v_requests, v_mark, v_log,
                   v_saved, VotOthers>>

\* get_all: a page without records ends the loop
VotPageEmpty ==
    /\ v_pc = "get_all"
    /\ v_fetched < MaxPagesPerCall
    /\ Deliver(v_local, "ok")
    /\ UNCHANGED <<v_i, v_local, v_fetched, v_seen, v_votacoes, v_votos,
                   v_requests, v_mark, v_log, v_saved, VotOthers>>

\* get_all: the request of a page raises; extract_all's except prints it
VotPageRaise ==
    /\ v_pc = "get_all"
    /\ v_fetched < MaxPagesPerCall
    /\ Deliver(OnGetAllRaise(v_local), "error")
    /\ UNCHANGED <<v_i, v_local, v_fetched, v_seen, v_votacoes, v_votos,
                   v_requests, v_mark, v_log, v_saved, VotOthers>>

\* for session in new_sessions, vid truthy: the session is recorded and its
\* votes are requested; _fetch_votos returns [] when the GET raises
VotSession ==
    /\ v_pc = "sessions"
    /\ v_new # <<>>
    /\ LET session == Head(v_new)
           vid == session.votacao_id
       IN  /\ v_new' = Tail(v_new)
           /\ v_seen' = v_seen \cup {vid}
           /\ v_votacoes' = Append(v_votacoes, session)
           /\ v_requests' = Append(v_requests, PyStr(vid))
           /\ \/ v_votos' = v_votos
              \/ \E dados \in VotosBodies :
                    v_votos' = v_votos \o fetch_votos(PyStr(vid), dados)
    /\ UNCHANGED <<v_pc, v_i, v_local, v_fetched, v_outcome, v_mark, v_log,
                   v_saved, VotOthers>>

\* the window is over: the progress line, or the error line
VotWindowEnd ==
    /\ v_pc = "sessions"
    /\ v_new = <<>>
    /\ v_log' = Append(v_log, [ outcome  |-> v_outcome,
                                fetched  |-> v_local,
                                sessions |-> Len(v_votacoes) - v_mark[1],
                                votos    |-> Len(v_votos) - v_mark[2],
                                requests |-> Len(v_requests) - v_mark[3] ])
    /\ v_pc' = "loop"
    /\ UNCHANGED <<v_i, v_local, v_fetched, v_outcome, v_new, v_seen, v_votacoes,
                   v_votos, v_requests, v_mark, v_saved, VotOthers>>

\* after the loop: nothing to write, or both collections go to save_parquet
VotPersist ==
    /\ v_pc = "loop"
    /\ v_i = Len(VotWindows)
    /\ v_saved' = IF v_votacoes = <<>> THEN <<>> ELSE <<v_votacoes, v_votos>>
    /\ v_pc' = "done"
    /\ UNCHANGED <<v_i, v_local, v_fetched, v_outcome, v_new, v_seen, v_votacoes,
                   v_votos, v_requests, v_mark, v_log, VotOthers>>

VotNext ==
    \/ VotWindow
    \/ VotPageMore
    \/ VotPageLast
    \/ VotPageEmpty
    \/ VotPageRaise
    \/ VotSession
    \/ VotWindowEnd
    \/ VotPersist

(***************************************************************************)
(* One run of main down to the single requests: the loop over to_run, the   *)
(* units of the running extractor (legislatures and deputies for            *)
(* camara_deputados, deputy x year for its two dependents, one request for  *)
(* every other extractor), and the pages of a unit.                         *)
(***************************************************************************)
Dependents == {"camara_despesas", "camara_proposicoes"}

ListaTable == "camara_deputados_lista"

\* the extractors of the Chamber, whose outcome and files the history keeps;
\* of the others it keeps that they ran
ChamberNames == {"camara_deputados", "camara_despesas", "camara_proposicoes",
                 "camara_votacoes"}

\* _load_deputy_ids() that reads without looking for the file
LoadWithoutCheck(tables) == Ok(<<"d1">>)

\* _load_deputy_ids(): FileNotFoundError naming the parquet when it is not
\* there, the ids of the file otherwise
load_deputy_ids(tables) ==
    IF ListaTable \notin tables THEN Raise("FileNotFoundError: camara_deputados_lista.parquet not found")
    ELSE Ok(<<"d1">>)

\* the client call returns while the request is still in flight
ReturnsBeforeCompletion(inflight, r) == inflight

\* self._client.get(...) is a blocking call: when it returns or raises the
\* request is over
CallReturns(inflight, r) == inflight \ {r}

\* config.CAMARA_DEFAULT_LEGISLATURES
Legislaturas == <<56, 57>>

\* years = list(range(start_year, end_year + 1))
SliceYears == <<2023, 2024>>

Unit(kind, label) == [kind |-> kind, label |-> label]

\* the deputy x year slices of a dependent
SliceUnits(ids) ==
    [k \in 1 .. (Len(ids) * Len(SliceYears)) |->
        Unit("slice", <<ids[((k - 1) \div Len(SliceYears)) + 1],
                        SliceYears[((k - 1) % Len(SliceYears)) + 1]>>)]

DetailUnits(ids) == [k \in DOMAIN ids |-> Unit("detail", <<ids[k], 0>>)]

ListaUnits == [k \in DOMAIN Legislaturas |-> Unit("lista", <<"leg", Legislaturas[k]>>)]

\* units fetched with get_all, the others with one get
Paged(unit) == unit.kind \in {"lista", "slice"}

\* the table a unit's records go to
TableOf(ext, unit) ==
    IF unit.kind = "lista" THEN ListaTable
    ELSE IF unit.kind = "detail" THEN "camara_deputados"
    ELSE ext

RunInputs ==
    { RegistryNames,
      <<"camara_despesas">>,
      <<"camara_proposicoes", "camara_despesas">>,
      <<"camara_despesas", "camara_deputados">>,
      <<"camara_deputados", "camara_proposicoes">> }

RunIdle ==
    /\ m_pc = "off"
    /\ m_to_run = <<>>
    /\ m_i = 0
    /\ m_ext = "none"
    /\ m_units = <<>>
    /\ m_page = 0
    /\ m_got = FALSE
    /\ m_acc = {}
    /\ m_ids = <<>>
    /\ m_inflight = {}
    /\ m_requested = FALSE
    /\ m_tables = {}
    /\ m_before = {}
    /\ m_log = <<>>

\* main after to_run is built; the deputy list of an earlier run may be there
RunStart ==
    /\ m_pc = "main"
    /\ m_to_run \in RunInputs
    /\ m_i = 0
    /\ m_ext = "none"
    /\ m_units = <<>>
    /\ m_page = 0
    /\ m_got = FALSE
    /\ m_acc = {}
    /\ m_ids = <<>>
    /\ m_inflight = {}
    /\ m_requested = FALSE
    /\ m_tables \in {{}, {ListaTable}}
    /\ m_before = {}
    /\ m_log = <<>>

RunOthers == <<coreVars, flatVars, votVars, comVars>>

LogEntry(outcome, error, wrote) ==
    IF m_ext \in ChamberNames
    THEN [ name |-> m_ext, outcome |-> outcome, error |-> error,
           lista |-> ListaTable \in m_before, requested |-> m_requested,
           wrote |-> wrote ]
    ELSE [ name |-> m_ext, outcome |-> "ended", error |-> "",
           lista |-> ListaTable \in m_before, requested |-> TRUE,
           wrote |-> {} ]

\* for name, entry in to_run.items(): _run_one(name, entry, ...): fn(**kwargs)
RunExtractor ==
    /\ m_pc = "main"
    /\ m_i < Len(m_to_run)
    /\ m_i' = m_i + 1
    /\ m_ext' = m_to_run[m_i + 1]
    /\ m_pc' = "start"
    /\ m_units' = <<>>
    /\ m_page' = 0
    /\ m_got' = FALSE
    /\ m_acc' = {}
    /\ m_ids' = <<>>
    /\ m_requested' = FALSE
    /\ m_before' = m_tables
    /\ UNCHANGED <<m_to_run, m_inflight, m_tables, m_log, RunOthers>>

\* the extractor fails: _run_one prints FAILED and main goes on
Fails(error) ==
    /\ m_log' = Append(m_log, LogEntry("failed", error, {}))
    /\ m_pc' = "main"

\* extract_camara_despesas / extract_camara_proposicoes.extract_all up to
\* the loop: deputy_ids = _load_deputy_ids()
DependentStart ==
    /\ m_pc = "start"
    /\ m_ext \in Dependents
    /\ LET ids == load_deputy_ids(m_tables)
       IN  IF ids.raised # ""
           THEN Fails(ids.raised) /\ UNCHANGED m_units
           ELSE /\ m_units' = SliceUnits(ids.value)
                /\ m_pc' = "units"
                /\ UNCHANGED m_log
    /\ UNCHANGED <<m_to_run, m_i, m_ext, m_page, m_got, m_acc, m_ids, m_inflight,
                   m_requested, m_tables, m_before, RunOthers>>

\* extract_camara_deputados.extract_all up to step 1
DeputadosStart ==
    /\ m_pc = "start"
    /\ m_ext = "camara_deputados"
    /\ m_units' = ListaUnits
    /\ m_pc' = "units"
    /\ UNCHANGED <<m_to_run, m_i, m_ext, m_page, m_got, m_acc, m_ids, m_inflight,
                   m_requested, m_tables, m_before, m_log, RunOthers>>

\* any other extractor: one request stands for its units
OtherStart ==
    /\ m_pc = "start"
    /\ m_ext \notin Dependents \cup {"camara_deputados"}
    /\ m_units' = <<Unit("other", <<m_ext, 0>>)>>
    /\ m_pc' = "units"
    /\ UNCHANGED <<m_to_run, m_i, m_ext, m_page, m_got, m_acc, m_ids, m_inflight,
                   m_requested, m_tables, m_before, m_log, RunOthers>>

Request == [ext |-> m_ext, unit |-> Head(m_units), page |-> m_page]

\* the next unit, or the next page of the unit: self._client.get(url, ...)
IssueRequest ==
    /\ m_pc = "units"
    /\ m_units # <<>>
    /\ m_inflight' = m_inflight \cup {Request}
    /\ m_requested' = TRUE
    /\ m_pc' = "waiting"
    /\ UNCHANGED <<m_to_run, m_i, m_ext, m_units, m_page, m_got, m_acc, m_ids,
                   m_tables, m_before, m_log, RunOthers>>

\* the unit is over: its records, when it has any, join the collection
UnitDone(got) ==
    LET unit == Head(m_units)
        ids == IF unit.kind = "lista" /\ got THEN <<"d1">> ELSE m_ids
        last_lista == unit.kind = "lista" /\ Len(m_units) = 1
    IN  /\ m_acc' = IF got /\ m_ext \in ChamberNames
                   THEN m_acc \cup {TableOf(m_ext, unit)} ELSE m_acc
        /\ m_ids' = ids
        /\ m_units' = IF last_lista THEN DetailUnits(ids) ELSE Tail(m_units)
        /\ m_page' = 0
        /\ m_got' = FALSE
        /\ m_pc' = "units"

\* get_all: a page with records and a next link, below the cap
ResponseMore ==
    /\ m_pc = "waiting"
    /\ Paged(Head(m_units))
    /\ m_page + 1 < MaxPagesPerCall
    /\ m_inflight' = CallReturns(m_inflight, Request)
    /\ m_page' = m_page + 1
    /\ m_got' = TRUE
    /\ m_pc' = "units"
    /\ UNCHANGED <<m_to_run, m_i, m_ext, m_units, m_acc, m_ids, m_requested,
                   m_tables, m_before, m_log, RunOthers>>

\* the last response of the unit, with records or empty
ResponseLast ==
    /\ m_pc = "waiting"
    /\ m_inflight' = CallReturns(m_inflight, Request)
    /\ \E records \in BOOLEAN : UnitDone(m_got \/ records)
    /\ UNCHANGED <<m_to_run, m_i, m_ext, m_requested, m_tables, m_before, m_log,
                   RunOthers>>

\* the request raises inside a try of the extractor: the unit adds nothing
RequestRaiseCaught ==
    /\ m_pc = "waiting"
    /\ Head(m_units).kind # "lista"
    /\ m_inflight' = CallReturns(m_inflight, Request)
    /\ UnitDone(FALSE)
    /\ UNCHANGED <<m_to_run, m_i, m_ext, m_requested, m_tables, m_before, m_log,
                   RunOthers>>

\* the request raises outside any try of the extractor (_fetch_lista, and
\* some of the other extractors): the exception reaches _run_one
RequestRaiseUncaught ==
    /\ m_pc = "waiting"
    /\ Head(m_units).kind \in {"lista", "other"}
    /\ m_inflight' = CallReturns(m_inflight, Request)
    /\ Fails("HTTPError")
    /\ UNCHANGED <<m_to_run, m_i, m_ext, m_units, m_page, m_got, m_acc, m_ids,
                   m_requested, m_tables, m_before, RunOthers>>

\* after the loops: save_parquet writes every collection that has records
ExtractorReturns ==
    /\ m_pc = "units"
    /\ m_units = <<>>
    /\ m_tables' = m_tables \cup m_acc
    /\ m_log' = Append(m_log, LogEntry("succeeded", "", m_acc))
    /\ m_pc' = "main"
    /\ UNCHANGED <<m_to_run, m_i, m_ext, m_units, m_page, m_got, m_acc, m_ids,
                   m_inflight, m_requested, m_before, RunOthers>>

\* print("All extractions complete.")
RunComplete ==
    /\ m_pc = "main"
    /\ m_i = Len(m_to_run)
    /\ m_pc' = "complete"
    /\ m_ext' = "none"
    /\ UNCHANGED <<m_to_run, m_i, m_units, m_page, m_got, m_acc, m_ids,
                   m_inflight, m_requested, m_tables, m_before, m_log, RunOthers>>

RunNext ==
    \/ RunExtractor
    \/ DependentStart
    \/ DeputadosStart
    \/ OtherStart
    \/ IssueRequest
    \/ ResponseMore
    \/ ResponseLast
    \/ RequestRaiseCaught
    \/ RequestRaiseUncaught
    \/ ExtractorReturns
    \/ RunComplete

(***************************************************************************)
(* extract_comissoes.extract_all, steps 1 and 2: the committee master list *)
(* built from /comissao/lista/colegiados and /comissao/lista/mistas.       *)
(***************************************************************************)
MaxRawLen == 2

JBool(b) == [tag |-> "bool", val |-> <<b>>]

\* _int(val): int(val) if val else None, None on ValueError or TypeError
comissoes_int(val) ==
    IF ~PyTruthy(val) THEN JNone
    ELSE IF PyInt(val).raised # "" THEN JNone
    ELSE JInt(PyInt(val).value)

\* "fonte": "colegiados" of _flatten_colegiado
FonteColegiado == JStr(<<"colegiados">>)

\* _flatten_colegiado(c)
flatten_colegiado(c) ==
    [ codigo_comissao |-> PyStr(PyOr(Get(c, "Codigo", JNone), JStr(<<>>))),
      sigla_comissao |-> Get(c, "Sigla", JNone),
      nome_comissao |-> Get(c, "Nome", JNone),
      finalidade |-> Get(c, "Finalidade", JNone),
      sigla_casa |-> Get(c, "SiglaCasa", JNone),
      codigo_tipo |-> Get(c, "CodigoTipoColegiado", JNone),
      sigla_tipo |-> Get(c, "SiglaTipoColegiado", JNone),
      descricao_tipo |-> Get(c, "DescricaoTipoColegiado", JNone),
      data_inicio |-> Get(c, "DataInicio", JNone),
      data_fim |-> Get(c, "DataFim", JNone),
      publica |-> IF PyTruthy(Get(c, "Publica", JNone))
                  THEN JBool(/\ Get(c, "Publica", JNone).tag = "str"
                             /\ Get(c, "Publica", JNone).val = <<"S">>)
                  ELSE JNone,
      qtd_titulares |-> JNone,
      qtd_senadores_titulares |-> JNone,
      qtd_deputados_titulares |-> JNone,
      fonte |-> FonteColegiado ]

\* _flatten_mista(c)
flatten_mista(c) ==
    LET qtd == PyOr(Get(c, "QuantidadesMembros", JNone), JEmpty)
    IN  [ codigo_comissao |-> PyStr(PyOr(Get(c, "CodigoColegiado", JNone), JStr(<<>>))),
          sigla_comissao |-> Get(c, "SiglaColegiado", JNone),
          nome_comissao |-> Get(c, "NomeColegiado", JNone),
          finalidade |-> Get(c, "Finalidade", JNone),
          sigla_casa |-> JStr(<<"CN">>),
          codigo_tipo |-> JNone,
          sigla_tipo |-> JStr(<<"MISTA">>),
          descricao_tipo |-> JStr(<<"Comissao Mista">>),
          data_inicio |-> JNone,
          data_fim |-> JNone,
          publica |-> JNone,
          qtd_titulares |-> comissoes_int(DictGet(qtd, "Titulares", JNone)),
          qtd_senadores_titulares |-> comissoes_int(DictGet(qtd, "SenadoresTitulares", JNone)),
          qtd_deputados_titulares |-> comissoes_int(DictGet(qtd, "DeputadosTitulares", JNone)),
          fonte |-> JStr(<<"mistas">>) ]

\* comissoes[codigo] = flat
Put(comissoes, codigo, flat) ==
    [c \in DOMAIN comissoes \cup {codigo} |-> IF c = codigo THEN flat ELSE comissoes[c]]

\* the augmentation of an entry that is already there
Augment(entry, flat) ==
    [entry EXCEPT !.qtd_titulares = flat.qtd_titulares,
                  !.qtd_senadores_titulares = flat.qtd_senadores_titulares,
                  !.qtd_deputados_titulares = flat.qtd_deputados_titulares,
                  !.fonte = JStr(<<"colegiados+mistas">>)]

ColegiadoRaw(codigo, sigla, publica) ==
    [ Codigo |-> codigo, Sigla |-> sigla, Nome |-> JStr(<<"N">>),
      Finalidade |-> JAbsent, SiglaCasa |-> JStr(<<"SF">>),
      CodigoTipoColegiado |-> JInt(21), SiglaTipoColegiado |-> JStr(<<"PERMANENTE">>),
      DescricaoTipoColegiado |-> JAbsent, DataInicio |-> JStr(<<"2001-01-01">>),
      DataFim |-> JAbsent, Publica |-> publica ]

\* records of /comissao/lista/colegiados: no code, code 1 with two
\* different sets of fields, and code 2
ColegiadoRecs ==
    { ColegiadoRaw(JAbsent, JStr(<<"A">>), JAbsent),
      ColegiadoRaw(JStr(<<"1">>), JStr(<<"A">>), JStr(<<"S">>)),
      ColegiadoRaw(JStr(<<"1">>), JStr(<<"B">>), JStr(<<"N">>)),
      ColegiadoRaw(JStr(<<"2">>), JStr(<<"C">>), JAbsent) }

Quantidades(titulares, senadores, deputados) ==
    JDict([ Titulares |-> titulares, SenadoresTitulares |-> senadores,
            DeputadosTitulares |-> deputados ])

MistaRaw(codigo, qtd) ==
    [ CodigoColegiado |-> codigo, SiglaColegiado |-> JStr(<<"M">>),
      NomeColegiado |-> JStr(<<"NM">>), Finalidade |-> JAbsent,
      QuantidadesMembros |-> qtd ]

\* records of /comissao/lista/mistas: a null code, code 1 (also in
\* colegiados) and code 3 (only here) with and without member counts
MistaRecs ==
    { MistaRaw(JNone, JAbsent),
      MistaRaw(JStr(<<"1">>), Quantidades(JStr(<<"8">>), JStr(<<"4">>), JStr(<<"x">>))),
      MistaRaw(JStr(<<"3">>), Quantidades(JStr(<<"6">>), JStr(<<"3">>), JStr(<<"3">>))),
      MistaRaw(JStr(<<"3">>), JAbsent) }

ListsOf(recs) == UNION { [1 .. n -> recs] : n \in 0 .. MaxRawLen }

ComIdle ==
    /\ cm_pc = "off"
    /\ cm_colegiados = <<>>
    /\ cm_mistas = <<>>
    /\ cm_i = 0
    /\ cm_comissoes = <<>>
    /\ cm_new_from_mistas = 0

\* after the first get_legis and _unwrap_list: comissoes = {}
ComStart ==
    /\ cm_pc = "colegiados"
    /\ cm_colegiados \in ListsOf(ColegiadoRecs)
    /\ cm_mistas \in ListsOf(MistaRecs)
    /\ cm_i = 0
    /\ cm_comissoes = <<>>
    /\ cm_new_from_mistas = 0

ComOthers == <<coreVars, flatVars, votVars, runVars>>

\* for c in colegiados_raw, the code is not empty
ColegiadoKeep ==
    /\ cm_pc = "colegiados"
    /\ cm_i < Len(cm_colegiados)
    /\ LET flat == flatten_colegiado(cm_colegiados[cm_i + 1])
       IN  /\ PyTruthy(flat.codigo_comissao)
           /\ cm_comissoes' = Put(cm_comissoes, flat.codigo_comissao.val, flat)
    /\ cm_i' = cm_i + 1
    /\ UNCHANGED <<cm_pc, cm_colegiados, cm_mistas, cm_new_from_mistas, ComOthers>>

\* for c in colegiados_raw, the code is empty
ColegiadoSkip ==
    /\ cm_pc = "colegiados"
    /\ cm_i < Len(cm_colegiados)
    /\ ~PyTruthy(flatten_colegiado(cm_colegiados[cm_i + 1]).codigo_comissao)
    /\ cm_i' = cm_i + 1
    /\ UNCHANGED <<cm_pc, cm_colegiados, cm_mistas, cm_comissoes, cm_new_from_mistas,
                   ComOthers>>

\* the first loop is over: the second get_legis, new_from_mistas = 0
ColegiadosEnd ==
    /\ cm_pc = "colegiados"
    /\ cm_i = Len(cm_colegiados)
    /\ cm_pc' = "mistas"
    /\ cm_i' = 0
    /\ UNCHANGED <<cm_colegiados, cm_mistas, cm_comissoes, cm_new_from_mistas,
                   ComOthers>>

\* for c in mistas_raw: if not codigo: continue
MistaSkip ==
    /\ cm_pc = "mistas"
    /\ cm_i < Len(cm_mistas)
    /\ ~PyTruthy(flatten_mista(cm_mistas[cm_i + 1]).codigo_comissao)
    /\ cm_i' = cm_i + 1
    /\ UNCHANGED <<cm_pc, cm_colegiados, cm_mistas, cm_comissoes, cm_new_from_mistas,
                   ComOthers>>

\* for c in mistas_raw: if codigo in comissoes
MistaAugment ==
    /\ cm_pc = "mistas"
    /\ cm_i < Len(cm_mistas)
    /\ LET flat == flatten_mista(cm_mistas[cm_i + 1])
           codigo == flat.codigo_comissao.val
       IN  /\ PyTruthy(flat.codigo_comissao)
           /\ codigo \in DOMAIN cm_comissoes
           /\ cm_comissoes' = Put(cm_comissoes, codigo, Augment(cm_comissoes[codigo], flat))
    /\ cm_i' = cm_i + 1
    /\ UNCHANGED <<cm_pc, cm_colegiados, cm_mistas, cm_new_from_mistas, ComOthers>>

\* for c in mistas_raw: else
MistaNew ==
    /\ cm_pc = "mistas"
    /\ cm_i < Len(cm_mistas)
    /\ LET flat == flatten_mista(cm_mistas[cm_i + 1])
           codigo == flat.codigo_comissao.val
       IN  /\ PyTruthy(flat.codigo_comissao)
           /\ codigo \notin DOMAIN cm_comissoes
           /\ cm_comissoes' = Put(cm_comissoes, codigo, flat)
    /\ cm_i' = cm_i + 1
    /\ cm_new_from_mistas' = cm_new_from_mistas + 1
    /\ UNCHANGED <<cm_pc, cm_colegiados, cm_mistas, ComOthers>>

\* the second loop is over: the master list is complete
MistasEnd ==
    /\ cm_pc = "mistas"
    /\ cm_i = Len(cm_mistas)
    /\ cm_pc' = "done"
    /\ UNCHANGED <<cm_colegiados, cm_mistas, cm_i, cm_comissoes, cm_new_from_mistas,
                   ComOthers>>

ComNext ==
    \/ ColegiadoKeep
    \/ ColegiadoSkip
    \/ ColegiadosEnd
    \/ MistaSkip
    \/ MistaAugment
    \/ MistaNew
    \/ MistasEnd

(***************************************************************************)
(* Specifications: one per component, the other components idle            *)
(***************************************************************************)
\* the components below at their idle values
MoreIdle == FlatIdle /\ VotIdle /\ RunIdle /\ ComIdle

WinInit ==
    WinStart /\ PipeIdle /\ WalkIdle /\ UnwrapIdle /\ SaveIdle /\ ExtIdle /\ files = FilesAbsent /\ FwdIdle /\ YmIdle /\ CliIdle /\ MoreIdle

SpecWindows == WinInit /\ [][WinNext]_vars

PipeInit ==
    PipeStart /\ WinIdle /\ WalkIdle /\ UnwrapIdle /\ SaveIdle /\ ExtIdle /\ files = FilesAbsent /\ FwdIdle /\ YmIdle /\ CliIdle /\ MoreIdle

SpecPipeline == PipeInit /\ [][PipeNext]_vars

WalkInit ==
    WalkStart /\ WinIdle /\ PipeIdle /\ UnwrapIdle /\ SaveIdle /\ ExtIdle /\ files = FilesAbsent /\ FwdIdle /\ YmIdle /\ CliIdle /\ MoreIdle

SpecWalker == WalkInit /\ [][WalkNext]_vars

UnwrapInit ==
    UnwrapStart /\ WinIdle /\ PipeIdle /\ WalkIdle /\ SaveIdle /\ ExtIdle /\ files = FilesAbsent /\ FwdIdle /\ YmIdle /\ CliIdle /\ MoreIdle

SpecUnwrap == UnwrapInit /\ [][UnwrapNext]_vars

SaveInit == SaveStart /\ WinIdle /\ PipeIdle /\ WalkIdle /\ UnwrapIdle /\ ExtIdle /\ FwdIdle /\ YmIdle /\ CliIdle /\ MoreIdle

SpecWriter == SaveInit /\ [][SaveNext]_vars

ExtInit == ExtStart /\ WinIdle /\ PipeIdle /\ WalkIdle /\ UnwrapIdle /\ SaveIdle /\ FwdIdle /\ YmIdle /\ CliIdle /\ MoreIdle

SpecExtract == ExtInit /\ [][ExtNext]_vars

FwdInit ==
    FwdStart /\ WinIdle /\ PipeIdle /\ WalkIdle /\ UnwrapIdle /\ SaveIdle
    /\ ExtIdle /\ files = FilesAbsent /\ YmIdle /\ CliIdle /\ MoreIdle

SpecForward == FwdInit /\ [][FwdNext]_vars

YmInit ==
    YmStart /\ WinIdle /\ PipeIdle /\ WalkIdle /\ UnwrapIdle /\ SaveIdle
    /\ ExtIdle /\ files = FilesAbsent /\ FwdIdle /\ CliIdle /\ MoreIdle

SpecYearMonth == YmInit /\ [][YmNext]_vars

CliInit ==
    CliStart /\ WinIdle /\ PipeIdle /\ WalkIdle /\ UnwrapIdle /\ SaveIdle
    /\ ExtIdle /\ files = FilesAbsent /\ FwdIdle /\ YmIdle /\ MoreIdle

SpecClient == CliInit /\ [][CliNext]_vars

\* every component above at its idle values
CoreIdle ==
    WinIdle /\ PipeIdle /\ WalkIdle /\ UnwrapIdle /\ SaveIdle /\ ExtIdle
    /\ files = FilesAbsent /\ FwdIdle /\ YmIdle /\ CliIdle

FlatInit == FlatStart /\ CoreIdle /\ VotIdle /\ RunIdle /\ ComIdle

SpecFlatten == FlatInit /\ [][FlatNext]_vars

VotInit == VotStart /\ CoreIdle /\ FlatIdle /\ RunIdle /\ ComIdle

SpecCamaraVotacoes == VotInit /\ [][VotNext]_vars

RunInit == RunStart /\ CoreIdle /\ FlatIdle /\ VotIdle /\ ComIdle

ComInit == ComStart /\ CoreIdle /\ FlatIdle /\ VotIdle /\ RunIdle

SpecComissoes == ComInit /\ [][ComNext]_vars

SpecRun == RunInit /\ [][RunNext]_vars

(***************************************************************************)
(* Properties of the window planners                                       *)
(***************************************************************************)
WStart(i) == Ord(w_windows[i][1])
WEnd(i)   == Ord(w_windows[i][2])

\* the days of the request that are not in the future
RequestedDays == Ord(w_start) .. Ord(MinDate(w_end, w_today))

CoveredOnce(t) ==
    Cardinality({i \in DOMAIN w_windows : WStart(i) <= t /\ t <= WEnd(i)}) = 1

NoWindowPastToday == \A i \in DOMAIN w_windows : WEnd(i) <= Ord(w_today)

\* C1: for every (start, end) and every date-window planner (month_date_windows
\* and the votacoes extractor's _month_windows) the windows cover each day of
\* [start, end] that is not after today exactly once, and no window extends
\* past today, also when end lies in the future.
C1_CoverOnceNotPastToday ==
    w_pc = "done" =>
        /\ \A t \in RequestedDays : CoveredOnce(t)
        /\ NoWindowPastToday

Contiguous ==
    /\ \A i \in DOMAIN w_windows : WStart(i) <= WEnd(i)
    /\ \A i \in DOMAIN w_windows :
          i < Len(w_windows) => WStart(i + 1) = WEnd(i) + 1

CoveredDays == UNION { WStart(i) .. WEnd(i) : i \in DOMAIN w_windows }

PlannerCutoff ==
    IF w_planner = "shared" THEN MinDate(w_end, w_today) ELSE w_end

WholeMonth(i) ==
    /\ w_windows[i][1] = <<w_windows[i][1][1], w_windows[i][1][2], 1>>
    /\ w_windows[i][2] = <<w_windows[i][1][1], w_windows[i][1][2],
                           monthrange(w_windows[i][1][1], w_windows[i][1][2])>>

\* C18: in date-window mode (both planners) the first window starts on the
\* first day of start's month, the last window ends on min(end, today), and
\* every window but the last is a whole calendar month; start = 2019-02-01
\* and end = 2019-04-15 with today not before end give the three windows
\* 02-01..02-28, 03-01..03-31, 04-01..04-15.
C18_FirstLastAndWholeMonths ==
    w_pc = "done" =>
        /\ w_windows # <<>> =>
              /\ w_windows[1][1] = <<w_start[1], w_start[2], 1>>
              /\ w_windows[Len(w_windows)][2] = MinDate(w_end, w_today)
              /\ \A i \in 1 .. (Len(w_windows) - 1) : WholeMonth(i)
        /\ (w_start = <<2019, 2, 1>> /\ w_end = <<2019, 4, 15>>
              /\ DateLE(w_end, w_today)) =>
              w_windows = << <<<<2019, 2, 1>>, <<2019, 2, 28>>>>,
                             <<<<2019, 3, 1>>, <<2019, 3, 31>>>>,
                             <<<<2019, 4, 1>>, <<2019, 4, 15>>>> >>

(***************************************************************************)
(* Properties of the orchestrator                                          *)
(***************************************************************************)
Terminal == {"succeeded", "failed"}

CalledNames == [k \in DOMAIN p_calls |-> p_calls[k].name]

\* C3: when a selected extractor raises, every extractor scheduled after it is
\* still invoked and ends, the orchestrator reaches its final step and the
\* exit code is the success code; the exit code is non-zero only for a usage
\* error, never because an extractor failed.
C3_FailureIsolated ==
    /\ p_pc # "crashed"
    /\ p_pc \in {"loop", "running"} =>
          /\ p_exit = <<>>
          /\ \A k \in 1 .. (p_i - 1) :
                p_state[p_to_run[k]] \in Terminal /\ CalledNames[k] = p_to_run[k]
    /\ p_pc = "complete" =>
          /\ p_exit = <<0>>
          /\ CalledNames = p_to_run
          /\ \A k \in DOMAIN p_to_run : p_state[p_to_run[k]] \in Terminal
    /\ (p_exit # <<>> /\ p_exit # <<0>>) =>
          /\ p_pc = "usage_error"
          /\ p_calls = <<>>

\* a full run in which the first extractor raised and all later ones ran
C3_Witness ==
    /\ p_pc = "complete"
    /\ p_exit = <<0>>
    /\ p_to_run = RegistryNames
    /\ p_state["senators"] = "failed"
    /\ \A k \in 2 .. Len(p_to_run) : p_state[p_to_run[k]] = "succeeded"

\* the names the run was asked for
GivenNames == IF p_only # <<>> THEN p_only ELSE RegistryNames

FirstIndex(seq, x) ==
    CHOOSE k \in DOMAIN seq : seq[k] = x /\ \A j \in 1 .. (k - 1) : seq[j] # x

\* C11 as stated: a completed subset run has invoked the extractors named by
\* --only once per occurrence, in the order given, and a completed full run
\* every registered extractor in registry order.
C11_InvokedPerOccurrence ==
    p_pc = "complete" => CalledNames = GivenNames

\* C11 amended: a subset run invokes each distinct name of --only once, in the
\* order of the names' first occurrences (a repeated name is invoked once);
\* a full run invokes every registered extractor in registry order.
C11_InvokedInOrderGiven ==
    p_pc \in {"loop", "running", "complete"} =>
        /\ \A k \in DOMAIN CalledNames : CalledNames[k] \in Range(GivenNames)
        /\ \A j, k \in DOMAIN CalledNames :
              j < k => /\ CalledNames[j] # CalledNames[k]
                       /\ FirstIndex(GivenNames, CalledNames[j])
                             < FirstIndex(GivenNames, CalledNames[k])
        /\ p_pc = "complete" => Range(CalledNames) = Range(GivenNames)
        /\ (p_pc = "complete" /\ p_only = <<>>) => CalledNames = RegistryNames

\* a completed subset run whose names were given against the registry order
C11_Witness ==
    /\ p_pc = "complete"
    /\ p_only = <<"votacoes", "senators">>
    /\ CalledNames = <<"votacoes", "senators">>

\* C12: a run (no --list) whose --only holds a name that is not registered
\* invokes no extractor, not even the valid names given before the unknown
\* one, and ends with a non-zero exit code.
C12_UnknownNameIsUsageError ==
    (~p_list /\ \E k \in DOMAIN p_only : p_only[k] \notin Range(RegistryNames)) =>
        /\ p_calls = <<>>
        /\ \A n \in Range(RegistryNames) : p_state[n] = "pending"
        /\ p_pc \in {"parsed", "usage_error"}
        /\ p_pc = "parsed" => (p_exit = <<>> /\ ENABLED MainUnknown /\ ~ENABLED MainSelect)
        /\ p_pc = "usage_error" => p_exit = <<1>>

\* the usage error of a run whose first name is valid and second is not
C12_Witness ==
    /\ p_pc = "usage_error"
    /\ p_only = <<"senators", "bogus">>
    /\ p_calls = <<>>
    /\ p_exit = <<1>>

Running == {n \in Range(RegistryNames) : p_state[n] = "running"}

C13_StateInv ==
    /\ Cardinality(Running) <= 1
    /\ \A j, k \in DOMAIN CalledNames : j # k => CalledNames[j] # CalledNames[k]
    /\ \A n \in Range(RegistryNames) :
          n \notin Range(p_to_run) => p_state[n] = "pending"
    /\ p_pc \in {"loop", "running"} =>
          \A k \in DOMAIN p_to_run :
              /\ k < p_i => p_state[p_to_run[k]] \in Terminal
              /\ k > p_i => p_state[p_to_run[k]] = "pending"
              /\ k = p_i => p_state[p_to_run[k]] =
                               (IF p_pc = "running" THEN "running" ELSE "pending")
    /\ (p_pc = "loop" /\ p_i <= Len(p_to_run)) => ENABLED RunOneStart
    /\ p_pc = "complete" =>
          \A k \in DOMAIN p_to_run : p_state[p_to_run[k]] \in Terminal

C13_Step ==
    \A n \in Range(RegistryNames) :
        p_state'[n] # p_state[n] =>
            /\ \/ p_state[n] = "pending" /\ p_state'[n] = "running"
               \/ p_state[n] = "running" /\ p_state'[n] \in Terminal
            /\ p_state'[n] = "running" => Running = {}
            /\ p_state'[n] \in Terminal => (p_pc' = "loop" /\ p_i' = p_i + 1)

\* C13: every selected extractor goes pending -> running -> succeeded or
\* failed and no other way: it is invoked at most once, a terminal state is
\* never left, at most one extractor is running, an extractor starts only
\* when all selected before it are terminal, and after a failure the loop
\* goes on to the next extractor.
C13_ExtractorStateMachine == []C13_StateInv /\ [][C13_Step]_vars

\* the second selected extractor running after the first one failed
C13_Witness ==
    /\ p_pc = "running"
    /\ p_i = 2
    /\ p_state[p_to_run[1]] = "failed"
    /\ p_state[p_to_run[2]] = "running"

\* the value main resolved for a tag
TagValue(tag) ==
    IF tag = "start_year" THEN k_args.start_year
    ELSE IF tag = "end_year"
         THEN (IF k_args.end_year # <<>> THEN k_args.end_year[1] ELSE k_today[1][1])
    ELSE IF tag = "start_date"
         THEN (IF k_args.start_date # <<>> THEN k_args.start_date[1] ELSE <<2019, 2, 1>>)
    ELSE (IF k_args.end_date # <<>> THEN k_args.end_date[1] ELSE k_today[1])

Received(tag) ==
    IF tag = "start_year" THEN k_kwargs.start_year
    ELSE IF tag = "end_year" THEN k_kwargs.end_year
    ELSE IF tag = "start_date" THEN k_kwargs.start
    ELSE k_kwargs.end

\* C14: the extractor is called with the value of a temporal tag exactly when
\* its registry entry declares the tag: an undeclared tag's value is never
\* passed, whatever the command line held, and a declared tag's value (the
\* one given, or its default) always is.
C14_ForwardsDeclaredTagsOnly ==
    k_pc = "called" =>
        \A tag \in {"start_year", "end_year", "start_date", "end_date"} :
            Received(tag) = (IF tag \in RegistryArgs(k_name)
                             THEN <<TagValue(tag)>> ELSE <<>>)

\* senators declares no tag and is called with nothing although all four
\* values were given on the command line
C14_Witness ==
    /\ k_pc = "called"
    /\ k_name = "senators"
    /\ k_args.end_year # <<>> /\ k_args.start_date # <<>> /\ k_args.end_date # <<>>
    /\ k_kwargs = NoKwargs

\* C23: with --list, whatever --only holds, no extractor is ever invoked,
\* the process ends with exit code 0, and what was printed is one line per
\* registered extractor, in registry order, with its name, description and
\* tags.
C23_ListRunsNothing ==
    p_list =>
        /\ p_calls = <<>>
        /\ \A n \in Range(RegistryNames) : p_state[n] = "pending"
        /\ p_pc \in {"parsed", "listed"}
        /\ p_pc = "parsed" => (p_exit = <<>> /\ ENABLED MainList
                               /\ ~ENABLED MainUnknown /\ ~ENABLED MainSelect)
        /\ p_pc = "listed" =>
              /\ p_exit = <<0>>
              /\ Len(p_listing) = Len(RegistryNames)
              /\ \A k \in DOMAIN RegistryNames :
                    /\ p_listing[k].name = RegistryNames[k]
                    /\ p_listing[k].desc = RegistryDesc(RegistryNames[k])
                    /\ p_listing[k].args = RegistryArgs(RegistryNames[k])

\* --list given together with an --only that names an unknown extractor
C23_Witness ==
    /\ p_pc = "listed"
    /\ p_list
    /\ p_only = <<"senators", "bogus">>
    /\ p_exit = <<0>>
    /\ Len(p_listing) = Len(RegistryNames)

(***************************************************************************)
(* Properties of the linked-page walker                                    *)
(***************************************************************************)
\* C6: one get_all call never issues more than max_pages requests, whatever
\* the upstream answers; against a source whose every page is non-empty and
\* carries a next link (cyclic or not) the call ends having issued exactly
\* max_pages requests and returns exactly the max_pages pages it received.
C6_StopsAtPageCap ==
    /\ Len(g_requests) <= g_max_pages
    /\ (g_pc = "loop" /\ g_always_next) =>
          /\ g_pages_fetched = Len(g_requests)
          /\ (Len(g_requests) < g_max_pages => ENABLED GetAllPage)
    /\ (g_pc = "returned" /\ g_always_next) =>
          /\ Len(g_requests) = g_max_pages
          /\ Len(g_pages) = g_max_pages
          /\ \A k \in DOMAIN g_pages : g_pages[k] # <<>>
          /\ g_all_records = Concat(g_pages)

\* a call against a source that keeps linking to the same page, cut at the cap
C6_Witness ==
    /\ g_pc = "returned"
    /\ g_always_next
    /\ g_max_pages = MaxCap
    /\ Len(g_requests) = MaxCap
    /\ \E j, k \in DOMAIN g_requests : j < k /\ g_requests[j].url = g_requests[k].url

HasItens(params) == \E kv \in params : kv[1] = "itens"

\* C15: the first request of a get_all call carries the caller's parameters,
\* with itens = 100 added only if the caller gave no itens (a given itens is
\* kept); every later request goes to the href of the first "next" link of
\* the page before it, as received, with no query parameters.
C15_FirstCallDefaultsThenVerbatim ==
    \A k \in DOMAIN g_requests :
        IF k = 1
        THEN /\ g_requests[1].url = CamaraBase
             /\ g_requests[1].params # <<>>
             /\ LET sent == g_requests[1].params[1]
                IN  /\ g_caller \subseteq sent
                    /\ HasItens(g_caller) => sent = g_caller
                    /\ ~HasItens(g_caller) =>
                          sent = g_caller \cup {<<"itens", 100>>}
        ELSE /\ g_requests[k].params = <<>>
             /\ \E j \in DOMAIN g_links[k - 1] :
                   /\ g_links[k - 1][j].rel = "next"
                   /\ g_links[k - 1][j].href = g_requests[k].url
                   /\ \A h \in 1 .. (j - 1) : g_links[k - 1][h].rel # "next"

\* a caller that gave itens = 50, and a second request made to the next link
C15_Witness ==
    /\ <<"itens", 50>> \in g_caller
    /\ Len(g_requests) >= 2
    /\ g_requests[1].params = <<g_caller>>
    /\ g_requests[2].url = "/u2"
    /\ g_requests[2].params = <<>>

\* the last page received links on: it has a "next" link with a usable href
LinksOn ==
    /\ g_links # <<>>
    /\ \E j \in DOMAIN g_links[Len(g_links)] :
          /\ g_links[Len(g_links)][j].rel = "next"
          /\ g_links[Len(g_links)][j].href # ""

\* the three reasons to stop
StopEmptyPage == g_pages # <<>> /\ g_pages[Len(g_pages)] = <<>>

StopNoNext == g_pages # <<>> /\ g_pages[Len(g_pages)] # <<>> /\ ~LinksOn

StopAtCap == Cardinality({k \in DOMAIN g_pages : g_pages[k] # <<>>}) >= g_max_pages

\* C16: get_all returns exactly when a page had no records, or the last page
\* had no (usable) next link, or as many non-empty pages as the cap were
\* fetched; as long as none of these holds it requests the next page. What
\* it returns is the records of the non-empty pages, in the order fetched;
\* nothing when the first page was empty.
C16_StopRulesAndConcatenation ==
    /\ g_pc = "returned" =>
          /\ StopEmptyPage \/ StopNoNext \/ StopAtCap
          /\ g_all_records = Concat(g_pages)
          /\ (g_pages # <<>> /\ g_pages[1] = <<>>) => g_all_records = <<>>
    /\ g_pc = "loop" =>
          /\ ~StopEmptyPage
          /\ (StopNoNext \/ StopAtCap) =>
                (ENABLED GetAllReturn /\ ~ENABLED GetAllPage)
          /\ ~(StopNoNext \/ StopAtCap) =>
                (ENABLED GetAllPage /\ ~ENABLED GetAllReturn)
          /\ g_all_records = Concat(g_pages)

\* two pages fetched, the second without next link, both returned in order
C16_Witness ==
    /\ g_pc = "returned"
    /\ g_max_pages = MaxCap
    /\ g_pages = <<<<"a", "b">>, <<"a">>>>
    /\ g_all_records = <<"a", "b", "a">>
    /\ StopNoNext

(***************************************************************************)
(* Properties of the normalisation sites                                   *)
(***************************************************************************)
\* C9: at every site that iterates a singleton-or-sequence field, the single
\* object form yields what the one-element sequence of the same object
\* yields, and an absent or None field yields an empty sequence, not an error.
C9_SingletonAsSequence ==
    u_pc = "done" =>
        /\ u_raw.tag = "dict" =>
              u_out = SiteResult(u_site, [tag |-> "list", val |-> <<u_raw.val>>])
        /\ u_raw.tag \in {"absent", "null"} => u_out = Ok(<<>>)

(***************************************************************************)
(* Properties of the year-month planners                                   *)
(***************************************************************************)
\* months from January of start_year through December of end_year or the
\* month of today, whichever comes first
MonthsPlanned ==
    LET last_year  == IF y_end_year < y_today[1] THEN y_end_year ELSE y_today[1]
        last_month == IF y_end_year < y_today[1] THEN 12 ELSE y_today[2]
        n == (last_year - y_start_year) * 12 + last_month
    IN  IF n < 0 THEN 0 ELSE n

\* C17: the pairs planned for (start_year, end_year) are, in order and once
\* each, the months from January of start_year through the month of today
\* when end_year is the current year or later, else through December of
\* end_year; months are 1..12, December is followed by January of the next
\* year, and no pair is later than today's month. For start_year = 2023 and
\* today = 2024-06-15 these are the 18 pairs (2023,1) .. (2024,6).
C17_YearMonthPairs ==
    y_pc = "planned" =>
        /\ Len(y_windows) = MonthsPlanned
        /\ \A k \in DOMAIN y_windows :
              /\ y_windows[k] = <<y_start_year + ((k - 1) \div 12), ((k - 1) % 12) + 1>>
              /\ y_windows[k][1] < y_today[1]
                    \/ (y_windows[k][1] = y_today[1] /\ y_windows[k][2] <= y_today[2])
        /\ (y_start_year = 2023 /\ y_end_year >= 2024 /\ y_today = <<2024, 6, 15>>) =>
              /\ Len(y_windows) = 18
              /\ y_windows[1] = <<2023, 1>>
              /\ y_windows[12] = <<2023, 12>>
              /\ y_windows[13] = <<2024, 1>>
              /\ y_windows[18] = <<2024, 6>>

\* the scenario start_year = 2023, today = 2024-06-15, end_year a later year
C17_Witness ==
    /\ y_pc = "planned"
    /\ y_planner = "servidores"
    /\ y_start_year = 2023
    /\ y_end_year = 2025
    /\ y_today = <<2024, 6, 15>>
    /\ Len(y_windows) = 18

(***************************************************************************)
(* Properties of the HTTP clients                                          *)
(***************************************************************************)
IsReq(k) == c_log[k].ev = "request"

\* request k was answered by a raise
Failed(k) == k < Len(c_log) /\ c_log[k + 1].ev = "raise"

\* C20: a request that fails (status or transport) is followed at once by the
\* raise: no second request of that call, no sleep; a request that succeeds
\* is followed by exactly one sleep of the client's fixed interval before the
\* body is returned or anything else is requested, so between a successful
\* request and the next request of the client there is a sleep. get_legis,
\* get_adm and CamaraApiClient.get make one request per call.
C20_NoRetryAndPacing ==
    /\ \A k \in DOMAIN c_log :
          /\ c_log[k].ev = "raise" => (k > 1 /\ IsReq(k - 1))
          /\ c_log[k].ev \in {"return", "decode_error"} =>
                (k > 2 /\ c_log[k - 1].ev = "sleep" /\ IsReq(k - 2))
          /\ c_log[k].ev = "sleep" =>
                /\ k > 1 /\ IsReq(k - 1)
                /\ c_log[k].secs = Delay(c_log[k].method)
                /\ c_log[k].secs > 0
          /\ (IsReq(k) /\ k > 1) => c_log[k - 1].ev # "request"
    /\ \A j, k \in DOMAIN c_log :
          (j < k /\ IsReq(j) /\ IsReq(k) /\ ~Failed(j)) =>
              \E h \in (j + 1) .. (k - 1) : c_log[h].ev = "sleep"
    /\ \A j, k \in DOMAIN c_log :
          (j < k /\ IsReq(j) /\ IsReq(k) /\ c_log[j].call = c_log[k].call) =>
              (c_log[j].method = "camara_get_all" /\ ~Failed(j))

\* a successful call followed by a failed one and then another successful one
C20_Witness ==
    /\ Len(c_log) >= 8
    /\ c_log[1].ev = "request" /\ c_log[2].ev = "sleep" /\ c_log[3].ev = "return"
    /\ c_log[4].ev = "request" /\ c_log[5].ev = "raise"
    /\ c_log[6].ev = "request" /\ c_log[7].ev = "sleep" /\ c_log[8].ev = "return"

(***************************************************************************)
(* Properties of the extractors                                            *)
(***************************************************************************)
Rows(t) == IF files[t] = <<>> THEN {} ELSE BagToSet(files[t][1])

\* C4: an extractor whose record collection for a table is empty when it
\* reaches the persist step writes nothing: the table's file is as the run
\* found it.
C4_EmptyCollectionWritesNothing ==
    \A t \in e_persist : e_acc[t] = <<>> => files[t] = files0[t]

\* C5: in every output table that exists, no two rows share a natural key.
C5_NoDuplicateKeys ==
    \A t \in Tables :
        files[t] # <<>> =>
            /\ \A r \in Rows(t) : CopiesIn(r, files[t][1]) = 1
            /\ \A r1, r2 \in Rows(t) : r1.key = r2.key => r1 = r2

\* C7: a unit whose fetch raises never aborts the extractor (a run is cut
\* short only when the enumeration of its units fails, before any unit), and
\* at the end of the run every record collected from the good units has a row
\* in its table.
C7_BadUnitContained ==
    /\ e_pc = "aborted" => e_units = <<>>
    /\ e_pc = "done" =>
          \A t \in ExtractorTables(e_name) :
              \A r \in Range(e_acc[t]) : \E row \in Rows(t) : row.key = r.key

\* C8: no record that reached a persist step has a null key (the source
\* object's identifier is the first key column; the others are the loop's
\* year and month, or the senator code).
C8_NoNullKeyPersisted ==
    \A t \in e_persist : \A r \in Range(e_acc[t]) : r.key[1] # Null

\* the tables the run has written
Written == {t \in e_persist : files[t] # files0[t]}

DistinctKeys(records) == Cardinality(KeysOf(Range(records)))

RowCount(file) == IF file = <<>> THEN 0 ELSE BagCardinality(file[1])

\* C10: deduplicating a record collection by its natural key leaves as many
\* rows as the collection has distinct key values, whatever the order and the
\* repetitions of the records (two calls on collections holding the same
\* records return the same count), one row when all records share a key, and
\* save_parquet returns that row count (0, with the file as it was, for an
\* empty collection).
C10_DedupRowCount ==
    (s_pc \in {"saved", "resaved"} /\ s_dedup) =>
        /\ s_ret = DistinctKeys(s_records)
        /\ s_records = <<>> => files[s_path] = s_prev.file
        /\ s_records # <<>> =>
              /\ RowCount(files[s_path]) = s_ret
              /\ BagToSet(files[s_path][1]) \subseteq Range(s_records)
              /\ KeysOf(BagToSet(files[s_path][1])) = KeysOf(Range(s_records))
        /\ (s_records # <<>> /\ \A j, k \in DOMAIN s_records :
                                  s_records[j].key = s_records[k].key)
              => s_ret = 1
        /\ (s_prev.given /\ s_prev.dedup /\ s_prev.recs = Range(s_records))
              => s_ret = s_prev.ret

\* the collection <<a, b, a'>> (a and a' share a key) written after a
\* collection holding the same records in another order
C10_Witness ==
    /\ s_pc = "resaved" /\ s_dedup
    /\ Len(s_records) = 3
    /\ s_records[1].key = s_records[3].key
    /\ s_records[1].val # s_records[3].val
    /\ s_records[2].key # s_records[1].key
    /\ s_prev.given /\ s_prev.dedup /\ s_prev.recs = Range(s_records)
    /\ s_ret = 2
    /\ RowCount(files[s_path]) = 2

(***************************************************************************)
(* Properties of the flatten functions                                     *)
(***************************************************************************)
Applied(fn) == f_pc = "done" /\ f_fn = fn

Identificacao == f_rec.identificacao

\* C22: a proposal flattener given an identificacao that is a string, None
\* or missing never raises, and a component whose separator is missing is
\* null: without a space there is no number, without a slash there is no
\* year, and without an identificacao there is no component at all.
C22_IdentificacaoNeverRaises ==
    ((Applied("flatten_processo_record") \/ Applied("processos_flatten_record"))
     /\ Identificacao.tag \in {"str", "none", "absent"}) =>
        /\ f_out.raised = ""
        /\ (Identificacao.tag = "str" /\ ~Has(Identificacao.val, " ")) =>
              f_out.value.numero_materia.tag = "none"
        /\ (Identificacao.tag = "str" /\ ~Has(Identificacao.val, "/")) =>
              f_out.value.ano_materia.tag = "none"
        /\ Identificacao.tag # "str" =>
              /\ f_out.value.sigla_materia.tag = "none"
              /\ f_out.value.numero_materia.tag = "none"
              /\ f_out.value.ano_materia.tag = "none"

SameValue(a, b) == a.tag = b.tag /\ a.val = b.val

SameOutcome(a, b) ==
    /\ a.raised = b.raised
    /\ a.raised = "" =>
          \A col \in DOMAIN a.value : SameValue(a.value[col], b.value[col])

\* C30: transforms.processos.flatten_processo_record and
\* extract_processos._flatten_record give the same outcome (the same error,
\* or records equal column by column) for every input record.
C30_ProcessoFlattenersAgree ==
    Applied("flatten_processo_record") =>
        SameOutcome(f_out, processos_flatten_record(f_rec))

\* the columns of the dict literal each flatten function returns
Columns(fn) ==
    CASE fn = "flatten_processo_record" ->
            { "id_processo", "codigo_materia", "identificacao", "sigla_materia",
              "numero_materia", "ano_materia", "ementa", "tipo_documento",
              "data_apresentacao", "autoria", "casa_identificadora",
              "tramitando", "data_ultima_atualizacao", "url_documento" }
      [] fn = "flatten_deputado_list" ->
            { "deputado_id", "nome", "sigla_partido", "sigla_uf",
              "id_legislatura", "url_foto", "email" }
      [] fn = "flatten_deputado_detail" ->
            { "deputado_id", "nome_civil", "nome_parlamentar", "nome_eleitoral",
              "sigla_partido", "sigla_uf", "id_legislatura", "url_foto", "email",
              "situacao", "condicao_eleitoral", "descricao_status",
              "data_status", "sexo", "data_nascimento", "uf_nascimento",
              "municipio_nascimento", "escolaridade", "telefone_gabinete" }
      [] fn = "transforms_flatten_senator" ->
            { "senador_id", "nome_parlamentar", "nome_completo", "sexo",
              "foto_url", "pagina_url", "email", "partido_sigla",
              "estado_sigla", "data_nascimento", "naturalidade",
              "uf_naturalidade" }
      [] fn = "transforms_flatten_mandate" ->
            { "senador_id", "mandato_id", "estado_sigla", "data_inicio",
              "data_fim", "legislatura_inicio", "legislatura_fim",
              "descricao_participacao" }
      [] OTHER -> {}

Present(v) == v.tag \notin {"absent", "none"}

\* the fields the natural key of the output table is built from are in the
\* record (idLegislatura, when given, is a number or its text)
KeyFieldsPresent(fn, rec) ==
    CASE fn = "flatten_processo_record" -> Present(rec.id)
      [] fn = "flatten_deputado_list" ->
            /\ Present(rec.id)
            /\ PyInt(PyOr(rec.idLegislatura, JInt(57))).raised = ""
      [] fn = "flatten_deputado_detail" -> Present(rec.id)
      [] fn = "transforms_flatten_senator" ->
            /\ rec.IdentificacaoParlamentar.tag = "dict"
            /\ Present(rec.IdentificacaoParlamentar.val.CodigoParlamentar)
      [] fn = "transforms_flatten_mandate" -> Present(rec.CodigoMandato)
      [] OTHER -> FALSE

\* C21: a flatten function whose input holds the fields of the natural key
\* does not raise, whatever the optional fields are (missing, null, not of
\* the expected shape), and every record a flatten function returns has
\* exactly the declared columns.
C21_RaisesOnlyForMissingKey ==
    (f_pc = "done" /\ Columns(f_fn) # {}) =>
        /\ f_out.raised = "" => DOMAIN f_out.value = Columns(f_fn)
        /\ KeyFieldsPresent(f_fn, f_rec) => f_out.raised = ""

FlatApply(fn, rec, arg) ==
    CASE fn = "flatten_ceaps_record" -> flatten_ceaps_record(rec)
      [] fn = "flatten_despesa_deputado" -> flatten_despesa_deputado(arg, rec)
      [] fn = "flatten_votacao_camara" -> flatten_votacao_camara(rec)
      [] fn = "flatten_voto_camara" -> flatten_voto_camara(arg, rec)

\* the identifier fields of the source record and the key columns made of them
IdColumns(fn) ==
    CASE fn = "flatten_ceaps_record" -> {<<"id", "id">>, <<"codSenador", "cod_senador">>}
      [] fn = "flatten_despesa_deputado" -> {<<"codDocumento", "cod_documento">>}
      [] fn = "flatten_votacao_camara" -> {<<"id", "votacao_id">>}
      [] OTHER -> {}

AsText(v) == JStr(Digits(v.val[1]))

\* C24: an identifier that arrives as a number leaves the flatten function
\* as text, the same text the function gives when the identifier arrives as
\* the text of that number; for the key columns of the CEAPS, Chamber
\* expense, Chamber voting-session and Chamber vote records.
C24_NumericIdBecomesText ==
    /\ (f_pc = "done" /\ IdColumns(f_fn) # {}) =>
          \A fc \in IdColumns(f_fn) :
              f_rec[fc[1]].tag = "int" =>
                  /\ f_out.value[fc[2]].tag = "str"
                  /\ SameValue(f_out.value[fc[2]],
                               FlatApply(f_fn,
                                         [f_rec EXCEPT ![fc[1]] = AsText(@)],
                                         f_arg).value[fc[2]])
    /\ (Applied("flatten_voto_camara") /\ f_rec.deputado_.tag = "dict"
        /\ f_rec.deputado_.val.id.tag = "int") =>
          /\ f_out.value.deputado_id.tag = "str"
          /\ SameValue(f_out.value.deputado_id,
                       flatten_voto_camara(f_arg,
                           [f_rec EXCEPT !.deputado_.val.id = AsText(@)]).value.deputado_id)

(***************************************************************************)
(* Properties of the Chamber votes extractor                               *)
(***************************************************************************)
\* C26: no two sessions of all_votacoes have the same id, the votes of no
\* session id are requested twice in a run, and every vote row of all_votos
\* carries (as text) the id of a session of all_votacoes.
C26_SessionOnceVotesOnce ==
    /\ \A j, k \in DOMAIN v_votacoes :
          j # k => ~SameValue(v_votacoes[j].votacao_id, v_votacoes[k].votacao_id)
    /\ \A j, k \in DOMAIN v_requests :
          j # k => ~SameValue(v_requests[j], v_requests[k])
    /\ \A k \in DOMAIN v_votos :
          \E j \in DOMAIN v_votacoes :
              SameValue(v_votos[k].votacao_id, PyStr(v_votacoes[j].votacao_id))

RECURSIVE SessionsOfOkWindows(_)
SessionsOfOkWindows(log) ==
    IF log = <<>> THEN 0
    ELSE (IF Head(log).outcome = "ok" THEN Head(log).sessions ELSE 0)
         + SessionsOfOkWindows(Tail(log))

\* C29: a window whose get_all call raised, on its first page or on a later
\* one, adds no session and no vote row and requests no votes, whatever the
\* pages fetched before the failure held; so the collections given to the
\* writer hold the sessions of the windows that were fetched in full only.
C29_FailedGetAllAddsNothing ==
    /\ \A k \in DOMAIN v_log :
          v_log[k].outcome = "error" =>
              /\ v_log[k].sessions = 0
              /\ v_log[k].votos = 0
              /\ v_log[k].requests = 0
    /\ (v_pc = "sessions" /\ v_outcome = "error") => v_new = <<>>
    /\ v_pc = "done" =>
          /\ Len(v_votacoes) = SessionsOfOkWindows(v_log)
          /\ v_saved # <<>> => v_saved[1] = v_votacoes

\* a window that failed on its second page, in a run that wrote the sessions
\* of the other window
C29_Witness ==
    /\ v_pc = "done"
    /\ v_saved # <<>>
    /\ \E k \in DOMAIN v_log :
          /\ v_log[k].outcome = "error"
          /\ v_log[k].fetched # <<>>
          /\ \E r \in Range(v_log[k].fetched) : IsNewSession(r, {})

(***************************************************************************)
(* Properties of one run of main                                           *)
(***************************************************************************)
MissingTableError == "FileNotFoundError: camara_deputados_lista.parquet not found"

LogNames == [k \in DOMAIN m_log |-> m_log[k].name]

\* C27: a dependent of the deputy list (camara_despesas, camara_proposicoes)
\* started while the deputy-list table is absent fails with the error that
\* names the missing table, before it has sent any request and without
\* writing a file, and the orchestrator goes on to the extractors after it;
\* in a full run camara_deputados is invoked before both dependents.
C27_DependentsFailFastWithoutList ==
    /\ \A k \in DOMAIN m_log :
          (m_log[k].name \in Dependents /\ ~m_log[k].lista)
              => /\ m_log[k].outcome = "failed"
                 /\ m_log[k].error = MissingTableError
                 /\ ~m_log[k].requested
                 /\ m_log[k].wrote = {}
    /\ Len(m_log) <= Len(m_to_run)
    /\ LogNames = SubSeq(m_to_run, 1, Len(m_log))
    /\ m_pc = "complete" => Len(m_log) = Len(m_to_run)
    /\ m_to_run = RegistryNames =>
          \A k \in DOMAIN m_log :
              m_log[k].name \in Dependents
                  => \E j \in 1 .. (k - 1) : m_log[j].name = "camara_deputados"

\* a complete full run in which both dependents failed for the missing table
\* and camara_votacoes ran after them
C27_Witness ==
    /\ m_pc = "complete"
    /\ m_to_run = RegistryNames
    /\ \A name \in Dependents :
          \E k \in DOMAIN m_log :
              /\ m_log[k].name = name
              /\ ~m_log[k].lista
              /\ m_log[k].error = MissingTableError
              /\ \E j \in (k + 1) .. Len(m_log) : m_log[j].name = "camara_votacoes"

\* C25: at most one HTTP request is in flight at any time of the run: a
\* request is sent only when none is in flight, the one in flight is that of
\* the running extractor's current unit and page, and none is in flight
\* between units, between extractors or after the run.
C25_OneRequestInFlight ==
    /\ [](Cardinality(m_inflight) <= 1)
    /\ [](m_pc # "waiting" => m_inflight = {})
    /\ [](\A r \in m_inflight :
             /\ r.ext = m_ext
             /\ m_units # <<>>
             /\ r.unit = Head(m_units)
             /\ r.page = m_page)
    /\ [][(m_inflight' \ m_inflight) # {} => m_inflight = {}]_vars

\* the second page of a unit is in flight, in the second extractor or later
C25_Witness ==
    /\ m_pc = "waiting"
    /\ m_i >= 2
    /\ m_page = 1
    /\ Cardinality(m_inflight) = 1

(***************************************************************************)
(* Properties of the committee master list                                 *)
(***************************************************************************)
CodesOf(flats) == {flats[i].codigo_comissao.val : i \in DOMAIN flats} \ {<<>>}

ColegiadoFlats == [i \in DOMAIN cm_colegiados |-> flatten_colegiado(cm_colegiados[i])]

MistaFlats == [i \in DOMAIN cm_mistas |-> flatten_mista(cm_mistas[i])]

CountColumns == {"qtd_titulares", "qtd_senadores_titulares", "qtd_deputados_titulares"}

OwnColumns == DOMAIN flatten_colegiado(ColegiadoRaw(JAbsent, JAbsent, JAbsent))
                  \ (CountColumns \cup {"fonte"})

\* entry has the values of flat in the given columns
Agree(entry, flat, cols) == \A col \in cols : SameValue(entry[col], flat[col])

Fonte(entry, text) == entry.fonte.val = <<text>>

\* C28: the finished master list has exactly the distinct non-empty codes of
\* the two sources as its keys; the entry of a code in both sources has the
\* colegiados fields of a colegiados record, the three member counts of a
\* mistas record and fonte 'colegiados+mistas'; that of a code only in mistas
\* is a mistas record with fonte 'mistas'; that of a code only in colegiados
\* is a colegiados record with fonte 'colegiados' and null member counts.
C28_MasterListMerge ==
    cm_pc = "done" =>
        LET col == CodesOf(ColegiadoFlats)
            mis == CodesOf(MistaFlats)
            FromCol(code, cols) ==
                \E i \in DOMAIN cm_colegiados :
                    /\ ColegiadoFlats[i].codigo_comissao.val = code
                    /\ Agree(cm_comissoes[code], ColegiadoFlats[i], cols)
            FromMis(code, cols) ==
                \E i \in DOMAIN cm_mistas :
                    /\ MistaFlats[i].codigo_comissao.val = code
                    /\ Agree(cm_comissoes[code], MistaFlats[i], cols)
        IN  /\ DOMAIN cm_comissoes = col \cup mis
            /\ <<>> \notin DOMAIN cm_comissoes
            /\ \A code \in DOMAIN cm_comissoes :
                  /\ cm_comissoes[code].codigo_comissao.val = code
                  /\ code \in col \cap mis =>
                        /\ FromCol(code, OwnColumns)
                        /\ FromMis(code, CountColumns)
                        /\ Fonte(cm_comissoes[code], "colegiados+mistas")
                  /\ code \in mis \ col =>
                        /\ FromMis(code, OwnColumns \cup CountColumns)
                        /\ Fonte(cm_comissoes[code], "mistas")
                  /\ code \in col \ mis =>
                        /\ FromCol(code, OwnColumns \cup CountColumns)
                        /\ Fonte(cm_comissoes[code], "colegiados")

====
